---- MODULE Spec2Model ----
(***************************************************************************)
(* The message-claim-and-processing engine of whatsapp-bot:                *)
(*   - the messages table of database.py (insert_message,                  *)
(*     fetch_and_lock_messages, mark_message_completed,                    *)
(*     mark_message_failed, clear_pending_messages_on_startup),            *)
(*   - the polling cycle of message_agent.py (process_new_messages and     *)
(*     the way process_message ends), run by two processes that share one  *)
(*     store,                                                              *)
(*   - the transport's delivery of a reply (whatsapp_client.send_message). *)
(* Time is counted in seconds.  CURRENT_TIMESTAMP of SQLite is UTC, while  *)
(* datetime.now() of Python is the host's local wall clock: the host's UTC *)
(* offset is part of the environment.                                      *)
(***************************************************************************)
EXTENDS Integers, Sequences, FiniteSets, TLC

VARIABLES
    store,      \* messages table: id -> row or NoRow
    bridge,     \* ids of the rows the transport's database holds
    now,        \* the UTC clock, in seconds
    tz,         \* UTC offset of the host's local time, in seconds
    result,     \* how the last direct call of insert_message or
                \* fetch_and_lock_messages ended
    pc,         \* per process: "idle" (gate free), "ready", "awaiting"
    batch,      \* per process: claimed messages still to handle, head first
    replies,    \* per message id: replies the transport has delivered
    failures,   \* per message id: mark_message_failed calls made for it
    ran,        \* per message id: process_message has run for it
    skipped,    \* the process whose latest call of process_new_messages
                \* found the gate held and returned at once, or "none"
    wake,       \* a call of check_and_strip_wake_word: its argument and,
                \* once it has returned, its result
    pm,         \* a call of process_message followed through its steps
    sess,       \* the chat_sessions table and the last session call, or a
                \* call of _calculate_session_expiry
    conf        \* the configuration file, the configuration in effect and
                \* the recorded hashes

vars == <<store, bridge, now, tz, result, pc, batch, replies, failures, ran,
          skipped, wake, pm, sess, conf>>

--------------------------------------------------------------------------
(* Bounds of the model *)

MsgIds == {"m1", "m2"}
Contents == {"hello", "other"}
Agents == {"p1", "p2"}
\* The messages the transport receives while two processes poll.
ReceivedIds == {"m1"}
\* The (id, content) pairs of the direct insert_message calls.
Inserts == (MsgIds \X {"hello"}) \cup ({"m1"} \X Contents)
TzOffsets == {0, 3600}
MaxTicks == 2
MaxReplies == 2

(* Program constants *)

PENDING == 0
CLAIMED == 1
COMPLETED == 2
FAILED_TERMINAL == 3
retry_ceiling == 3
timeout_seconds == 300
max_retries == 3
limit == 10

NULL == 0 - 1
NoRow == [status |-> 0 - 1]

TickStep == timeout_seconds
MaxTime == MaxTicks * TickStep

Max(a, b) == IF a >= b THEN a ELSE b
Min(a, b) == IF a <= b THEN a ELSE b

HasRow(st, m) == st[m] # NoRow

\* The rows the transport's own database (the Go bridge) holds: one content
\* and one event timestamp per message id.
BridgeContent(m) == "hello"
BridgeTime(m) == IF m = "m1" THEN 1 ELSE 2

--------------------------------------------------------------------------
(* database.py: the messages table *)

\* A fresh row as INSERT OR IGNORE builds it: processing_status 0, the
\* column defaults (retry_count 0, processing_started_at NULL), synced_at
\* CURRENT_TIMESTAMP.
NewRow(c, ts, t) ==
    [status |-> PENDING, content |-> c, timestamp |-> ts, retry |-> 0,
     started |-> NULL, synced |-> t, processed |-> FALSE]

\* An upsert that replaces the row of an id already stored (INSERT OR
\* REPLACE), unlike the code's.
insert_message_replace(st, m, c, ts, t) ==
    [store |-> [st EXCEPT ![m] = NewRow(c, ts, t)], inserted |-> TRUE]

\* Database.insert_message: INSERT OR IGNORE, and when the id exists only
\* UPDATE ... SET synced_at = CURRENT_TIMESTAMP.
insert_message(st, m, c, ts, t) ==
    IF HasRow(st, m)
    THEN [store |-> [st EXCEPT ![m].synced = t], inserted |-> FALSE]
    ELSE [store |-> [st EXCEPT ![m] = NewRow(c, ts, t)], inserted |-> TRUE]

\* datetime.now(): the host's local wall clock, as a naive datetime.
LocalNow(t, off) == t + off

\* timeout_threshold = datetime.now() - timedelta(seconds=timeout_seconds)
timeout_threshold(t, off, timeout) == LocalNow(t, off) - timeout

\* A WHERE clause without the test of retry_count, unlike the code's.
Candidate_any_retry(r, thr) ==
    \/ r.status = PENDING
    \/ /\ r.status = CLAIMED
       /\ r.started # NULL
       /\ r.started < thr

\* The WHERE clause of the candidate SELECT: fresh rows, or rows in
\* processing whose processing_started_at is below the threshold and whose
\* retry_count is below 3.  A NULL processing_started_at compares as false.
Candidate(r, thr) ==
    \/ r.status = PENDING
    \/ /\ r.status = CLAIMED
       /\ r.started # NULL
       /\ r.started < thr
       /\ r.retry < retry_ceiling

Candidates(st, thr) == {m \in MsgIds : HasRow(st, m) /\ Candidate(st[m], thr)}

Range(s) == {s[i] : i \in 1..Len(s)}

Perms(S) ==
    {s \in [1..Cardinality(S) -> S] :
        \A i, j \in 1..Cardinality(S) : i # j => s[i] # s[j]}

\* ORDER BY timestamp ASC: rows of equal timestamp come in either order.
OrderedByTimestamp(st, s) ==
    \A i, j \in 1..Len(s) : i < j => st[s[i]].timestamp <= st[s[j]].timestamp

\* A SELECT without ORDER BY, unlike the code's: the candidates in any order.
SelectIds_any_order(st, thr, lim) ==
    {SubSeq(s, 1, Min(lim, Len(s))) : s \in Perms(Candidates(st, thr))}

\* SELECT id ... ORDER BY timestamp ASC LIMIT ?: the id lists the SELECT may
\* return.
SelectIds(st, thr, lim) ==
    {SubSeq(s, 1, Min(lim, Len(s))) :
        s \in {p \in Perms(Candidates(st, thr)) : OrderedByTimestamp(st, p)}}

\* UPDATE messages SET processing_status = 1, processing_started_at =
\* CURRENT_TIMESTAMP, retry_count = retry_count + 1 WHERE id IN (...)
MarkProcessing(st, ids, t) ==
    [m \in MsgIds |->
        IF m \in Range(ids)
        THEN [st[m] EXCEPT !.status = CLAIMED, !.started = t, !.retry = @ + 1]
        ELSE st[m]]

\* An except branch that keeps the transaction's writes, unlike the code's.
Rollback_keep(before, work) == work

\* self.conn.rollback(): the table as it was at BEGIN IMMEDIATE.
Rollback(before, work) == before

\* Database.fetch_and_lock_messages, one transaction.  err names the step
\* that raises ("none": no step does).  An error in the SELECT or in the
\* UPDATE statement leaves nothing of that statement; an error in the
\* re-read comes after the UPDATE has marked the rows.
fetch_and_lock_messages(st, ids, t, err) ==
    LET work == IF err \in {"select", "update"} THEN st
                ELSE MarkProcessing(st, ids, t)
    IN  IF err = "none"
        THEN [store |-> work, messages |-> ids, raised |-> FALSE]
        ELSE [store |-> Rollback(st, work), messages |-> <<>>, raised |-> TRUE]

\* Database.mark_message_completed
mark_message_completed(st, m) ==
    IF HasRow(st, m)
    THEN [st EXCEPT ![m].status = COMPLETED, ![m].processed = TRUE]
    ELSE st

\* A failure marking that allows one claim more (retry_count <= ?), unlike
\* the code's.
mark_message_failed_le(st, m, maxr) ==
    IF HasRow(st, m)
    THEN [st EXCEPT ![m].status =
              IF st[m].retry <= maxr THEN PENDING ELSE FAILED_TERMINAL]
    ELSE st

\* Database.mark_message_failed: CASE WHEN retry_count < ? THEN 0 ELSE 3
mark_message_failed(st, m, maxr) ==
    IF HasRow(st, m)
    THEN [st EXCEPT ![m].status =
              IF st[m].retry < maxr THEN PENDING ELSE FAILED_TERMINAL]
    ELSE st

\* Database.clear_pending_messages_on_startup: every row in state 0 or 1
\* becomes 2 (and processed = 1).
clear_pending_messages_on_startup(st) ==
    [m \in MsgIds |->
        IF HasRow(st, m) /\ st[m].status \in {PENDING, CLAIMED}
        THEN [st[m] EXCEPT !.status = COMPLETED, !.processed = TRUE]
        ELSE st[m]]

\* A start-up that leaves the rows of the previous run as they are, unlike
\* the code's.
initialize_keep(st) == st

\* Database.initialize: the tables exist already on a restart; the
\* migration does nothing; the pending rows are cleared.
initialize(st) == clear_pending_messages_on_startup(st)

\* Database.sync_from_go_bridge: insert_message for every bridge row of the
\* lookback window (rows: their ids; the window is 24 hours, far longer
\* than the times of this model, so it holds every row of the bridge).
RECURSIVE sync_from_go_bridge(_, _, _)
sync_from_go_bridge(st, rows, t) ==
    IF rows = {} THEN st
    ELSE LET m == CHOOSE x \in rows : TRUE
         IN  sync_from_go_bridge(
                 insert_message(st, m, BridgeContent(m), BridgeTime(m), t).store,
                 rows \ {m}, t)

--------------------------------------------------------------------------
(* message_agent.py: the polling cycle, one per process *)

\* A marking that completes the message whatever process_message did,
\* unlike the code's.
AfterMessage_complete(st, m, ok, db) ==
    IF db = "locked"
    THEN [store |-> st, failed |-> FALSE, aborted |-> TRUE]
    ELSE [store |-> mark_message_completed(st, m), failed |-> FALSE,
          aborted |-> FALSE]

\* process_new_messages, lines 442-451, once process_message has returned
\* (ok) or raised (~ok) for message m.  db tells how the store answers the
\* marking call: "ok"; "completed_raises" (mark_message_completed raises and
\* the except branch's mark_message_failed succeeds); "locked" (the marking
\* raises, also in the except branch, and the outer except ends the cycle).
AfterMessage(st, m, ok, db) ==
    IF db = "locked"
    THEN [store |-> st, failed |-> FALSE, aborted |-> TRUE]
    ELSE IF ok /\ db = "ok"
    THEN [store |-> mark_message_completed(st, m), failed |-> FALSE,
          aborted |-> FALSE]
    ELSE [store |-> mark_message_failed(st, m, max_retries), failed |-> TRUE,
          aborted |-> FALSE]

\* The for loop goes on with the next message of the batch, or the cycle
\* ends and the gate is released.
Advance(a, r) ==
    /\ batch' = [batch EXCEPT ![a] = IF r.aborted THEN <<>> ELSE Tail(@)]
    /\ pc' = [pc EXCEPT ![a] = IF batch'[a] = <<>> THEN "idle" ELSE "ready"]

InitEngine ==
    /\ store = [m \in MsgIds |-> NoRow]
    /\ bridge = {}
    /\ now = 0
    /\ tz \in TzOffsets
    /\ result = "none"
    /\ pc = [a \in Agents |-> "idle"]
    /\ batch = [a \in Agents |-> <<>>]
    /\ replies = [m \in MsgIds |-> 0]
    /\ failures = [m \in MsgIds |-> 0]
    /\ ran = [m \in MsgIds |-> FALSE]
    /\ skipped = "none"

\* No call of check_and_strip_wake_word, no call of process_message followed.
NoWake == [content |-> <<>>, returned |-> FALSE]
NoPm == [stage |-> "none"]
\* No session call followed, no configuration followed.
NoSess == [kind |-> "none"]
NoConf == [kind |-> "none"]

Init ==
    /\ InitEngine
    /\ wake = NoWake
    /\ pm = NoPm
    /\ sess = NoSess
    /\ conf = NoConf

\* The transport receives a message and stores it in its own database.
BridgeReceive(m) ==
    /\ m \notin bridge
    /\ bridge' = bridge \cup {m}
    /\ UNCHANGED <<sess, conf, wake, pm, skipped, store, now, tz, result, pc, batch, replies, failures, ran>>

\* A gate that is never found held, unlike asyncio.Lock.locked().
locked_never(a) == FALSE

\* self._processing_lock.locked(): the gate is held from the start of a
\* cycle of process a to its end.
locked(a) == pc[a] # "idle"

\* process_new_messages up to the for loop: the gate is free, the bridge's
\* rows are synced, the batch is claimed.  An error of the claim is caught
\* by the outer except and ends the cycle.
ClaimCycle(a, err) ==
    /\ ~locked(a)
    /\ skipped' = IF skipped = a THEN "none" ELSE skipped
    /\ UNCHANGED <<sess, wake, pm>>
    /\ LET synced == sync_from_go_bridge(store, bridge, now)
           thr == timeout_threshold(now, tz, timeout_seconds)
       IN  \E ids \in SelectIds(synced, thr, limit) :
              LET r == fetch_and_lock_messages(synced, ids, now, err)
              IN  /\ store' = r.store
                  /\ batch' = [batch EXCEPT ![a] = r.messages]
                  /\ pc' = [pc EXCEPT ![a] =
                               IF r.messages = <<>> THEN "idle" ELSE "ready"]
    /\ UNCHANGED <<bridge, now, tz, result, replies, failures, ran>>

\* process_new_messages with a configuration file that has not changed:
\* _maybe_reload_config returns without effect.
StartCycle(a, err) == ClaimCycle(a, err) /\ UNCHANGED conf

\* process_new_messages called while a cycle of the same process is running:
\* the gate is held and the call returns at once.
SkipCycle(a) ==
    /\ locked(a)
    /\ skipped' = a
    /\ UNCHANGED <<sess, conf, wake, pm, store, bridge, now, tz, result, pc, batch, replies, failures,
                   ran>>

\* process_message from its start to its first await, for the head of the
\* batch: the idempotency check, then either a return without reply (a
\* gate of lines 485-578), an exception, or the await of the debounce, the
\* completion provider or the transport.
BeginMessage(a, outcome, db) ==
    /\ pc[a] = "ready"
    /\ LET m == Head(batch[a])
           done == HasRow(store, m) /\ store[m].status = COMPLETED
       IN  /\ done => outcome = "return"
           /\ IF outcome = "await"
              THEN /\ db = "ok"
                   /\ pc' = [pc EXCEPT ![a] = "awaiting"]
                   /\ UNCHANGED <<store, batch, failures, ran>>
              ELSE LET r == AfterMessage(store, m, outcome = "return", db)
                   IN  /\ store' = r.store
                       /\ Advance(a, r)
                       /\ failures' = [failures EXCEPT ![m] =
                                          IF r.failed THEN @ + 1 ELSE @]
                       /\ ran' = [ran EXCEPT ![m] =
                                     @ \/ (outcome = "return" /\ ~done)]
    /\ UNCHANGED <<sess, conf, wake, pm, skipped, bridge, now, tz, result, replies>>

\* The rest of process_message: the reply goes through the transport
\* ("replied"), the transport delivers it and send_message then raises
\* ("replied_then_raised"), an exception comes before any delivery
\* ("raised"), or process_message returns with nothing delivered
\* ("no_reply": the debounce found a newer message, or the bridge answered
\* without success).  The row send_message stores for the reply, under an
\* id sent_<time>, is a message of its own and not one of MsgIds.
FinishMessage(a, outcome, db) ==
    /\ pc[a] = "awaiting"
    /\ LET m == Head(batch[a])
           ok == outcome \in {"replied", "no_reply"}
           r == AfterMessage(store, m, ok, db)
       IN  /\ store' = r.store
           /\ Advance(a, r)
           /\ replies' = [replies EXCEPT ![m] =
                             IF outcome \in {"replied", "replied_then_raised"}
                             THEN Min(MaxReplies, @ + 1) ELSE @]
           /\ failures' = [failures EXCEPT ![m] =
                              IF r.failed THEN @ + 1 ELSE @]
           /\ ran' = [ran EXCEPT ![m] = @ \/ ok]
    /\ UNCHANGED <<sess, conf, wake, pm, skipped, bridge, now, tz, result>>

\* The process stops (a crash, or the shutdown that cancels its tasks) and
\* is started again: what it held in memory is gone, and run_service calls
\* Database.initialize.
Restart(a) ==
    /\ store' = initialize(store)
    /\ pc' = [pc EXCEPT ![a] = "idle"]
    /\ batch' = [batch EXCEPT ![a] = <<>>]
    /\ UNCHANGED <<sess, conf, wake, pm, skipped, bridge, now, tz, result, replies, failures, ran>>

\* Stored times of a row moved back by d, kept at 0 or later.
RowBack(r, d) ==
    [r EXCEPT !.started = IF @ = NULL THEN NULL ELSE Max(0, @ - d),
              !.synced = Max(0, @ - d)]

\* Time passes.  Once the clock shows MaxTime the model keeps the clock and
\* moves every stored time back instead: the differences the code compares
\* stay the same.
Tick ==
    /\ IF now < MaxTime
       THEN /\ now' = now + TickStep
            /\ store' = store
       ELSE /\ now' = now
            /\ store' = [m \in MsgIds |->
                            IF HasRow(store, m) THEN RowBack(store[m], TickStep)
                            ELSE store[m]]
    /\ UNCHANGED <<sess, conf, wake, pm, skipped, bridge, tz, result, pc, batch, replies, failures, ran>>

Errors == {"none", "select", "update", "reread"}
DbAnswers == {"ok", "completed_raises", "locked"}

Next ==
    \/ \E m \in ReceivedIds : BridgeReceive(m)
    \/ \E a \in Agents, err \in Errors : StartCycle(a, err)
    \/ \E a \in Agents : SkipCycle(a)
    \/ \E a \in Agents, outcome \in {"return", "raise", "await"},
          db \in DbAnswers : BeginMessage(a, outcome, db)
    \/ \E a \in Agents,
          outcome \in {"replied", "replied_then_raised", "raised", "no_reply"},
          db \in DbAnswers : FinishMessage(a, outcome, db)
    \/ \E a \in Agents : Restart(a)
    \/ Tick

Spec == Init /\ [][Next]_vars

\* The scheduling of the running service: time passes, the polling loop of
\* MessageAgent.start starts a cycle after every interval, and a coroutine
\* that can go on does go on.  Which outcome a step has, whether the store
\* or the transport answers with an error, and when a process restarts are
\* left open.
Fairness ==
    /\ WF_vars(Tick)
    /\ \A a \in Agents : WF_vars(StartCycle(a, "none"))
    /\ \A a \in Agents :
          WF_vars(\E outcome \in {"return", "raise", "await"}, db \in DbAnswers :
                     BeginMessage(a, outcome, db))
    /\ \A a \in Agents :
          WF_vars(\E outcome \in {"replied", "replied_then_raised", "raised",
                                  "no_reply"}, db \in DbAnswers :
                     FinishMessage(a, outcome, db))

FairSpec == Spec /\ Fairness

--------------------------------------------------------------------------
(* The store's methods called one by one, by any caller *)

StoreCaller == "p1"

\* Database.insert_message(m, ..., c, ts, ...)
InsertMessage(m, c, ts) ==
    LET r == insert_message(store, m, c, ts, now)
    IN  /\ store' = r.store
        /\ result' = IF r.inserted THEN "inserted" ELSE "existed"
        /\ UNCHANGED <<sess, conf, wake, pm, skipped, bridge, now, tz, pc, batch, replies, failures, ran>>

\* Database.fetch_and_lock_messages(limit, timeout_seconds); batch keeps
\* what the call returned.
FetchAndLock(err) ==
    /\ \E ids \in SelectIds(store, timeout_threshold(now, tz, timeout_seconds),
                            limit) :
          LET r == fetch_and_lock_messages(store, ids, now, err)
          IN  /\ store' = r.store
              /\ batch' = [batch EXCEPT ![StoreCaller] = r.messages]
              /\ result' = IF r.raised THEN "raised" ELSE "returned"
    /\ UNCHANGED <<sess, conf, wake, pm, skipped, bridge, now, tz, pc, replies, failures, ran>>

\* Database.mark_message_completed(m)
MarkCompleted(m) ==
    /\ store' = mark_message_completed(store, m)
    /\ UNCHANGED <<sess, conf, wake, pm, skipped, bridge, now, tz, result, pc, batch, replies, failures, ran>>

\* Database.mark_message_failed(m, max_retries)
MarkFailed(m) ==
    /\ store' = mark_message_failed(store, m, max_retries)
    /\ UNCHANGED <<sess, conf, wake, pm, skipped, bridge, now, tz, result, pc, batch, replies, failures, ran>>

\* Database.initialize()
Initialize ==
    /\ store' = initialize(store)
    /\ UNCHANGED <<sess, conf, wake, pm, skipped, bridge, now, tz, result, pc, batch, replies, failures, ran>>

StoreNext ==
    \/ \E i \in Inserts : InsertMessage(i[1], i[2], BridgeTime(i[1]))
    \/ \E err \in Errors : FetchAndLock(err)
    \/ \E m \in MsgIds : MarkCompleted(m)
    \/ \E m \in MsgIds : MarkFailed(m)
    \/ Initialize
    \/ Tick

\* The store's methods are exercised on a host whose local time is UTC; the
\* polling processes of Spec run under either offset.
StoreInit == Init /\ tz = 0

StoreSpec == StoreInit /\ [][StoreNext]_vars

--------------------------------------------------------------------------
(* Properties *)

\* C1: inserting a message whose id is already stored changes nothing of
\* the row but its last-synced time (content, event timestamp, processing
\* state, retry counter and processing-started time stay), leaves every
\* other row alone and reports "not inserted"; inserting a new id stores
\* the row PENDING with retry counter 0 and reports "inserted".
C1_UpsertIdempotent ==
    [][\A i \in Inserts :
          InsertMessage(i[1], i[2], BridgeTime(i[1])) =>
             LET m == i[1]
             IN  /\ \A k \in MsgIds \ {m} : store'[k] = store[k]
                 /\ IF HasRow(store, m)
                    THEN /\ result' = "existed"
                         /\ store'[m].content = store[m].content
                         /\ store'[m].timestamp = store[m].timestamp
                         /\ store'[m].status = store[m].status
                         /\ store'[m].retry = store[m].retry
                         /\ store'[m].started = store[m].started
                         /\ store'[m].processed = store[m].processed
                         /\ store'[m].synced = now
                    ELSE /\ result' = "inserted"
                         /\ store'[m].content = i[2]
                         /\ store'[m].status = PENDING
                         /\ store'[m].retry = 0
                         /\ store'[m].started = NULL]_vars

\* An id stored with one content and claimed some time ago has just been
\* inserted again: the call reported "not inserted" and the row is still
\* the claimed one.
C1_Witness ==
    /\ result = "existed"
    /\ HasRow(store, "m1")
    /\ store["m1"].content = "other"
    /\ store["m1"].status = CLAIMED
    /\ store["m1"].retry = 1
    /\ store["m1"].started < now
    /\ store["m1"].synced = now

\* A claim cycle of process a has just come back from the store.
Claim(a) == \E err \in Errors : StartCycle(a, err)

\* Row m is CLAIMED and its claim has not timed out: no more than
\* timeout_seconds have passed since it was claimed.
ClaimedInTime(m) ==
    /\ HasRow(store, m)
    /\ store[m].status = CLAIMED
    /\ now - store[m].started <= timeout_seconds

\* C2: no claim returns a message that is CLAIMED and whose claim has not
\* yet timed out, whichever of the two processes claims.
C2_NoDoubleHandOut ==
    [][\A a \in Agents :
          Claim(a) => \A m \in Range(batch'[a]) : ~ClaimedInTime(m)]_vars

C4_AtMostOneReply ==
    tz = 0 => \A m \in MsgIds : replies[m] <= 1

\* C5: a CLAIMED message is returned by a claim only after more than
\* timeout_seconds have passed since it was claimed; a claim that succeeds
\* returns every CLAIMED message whose timeout has passed and whose retry
\* counter is below the ceiling; the re-claim raises the retry counter by
\* exactly 1 and sets processing-started to the time of the re-claim.
C5_TimeoutReclaim ==
    [][\A a \in Agents, m \in MsgIds :
          /\ Claim(a) /\ HasRow(store, m) /\ store[m].status = CLAIMED
             /\ m \in Range(batch'[a])
             => /\ now - store[m].started > timeout_seconds
                /\ store'[m].retry = store[m].retry + 1
                /\ store'[m].started = now
          /\ StartCycle(a, "none") /\ HasRow(store, m)
             /\ store[m].status = CLAIMED
             /\ now - store[m].started > timeout_seconds
             /\ store[m].retry < retry_ceiling
             => m \in Range(batch'[a])]_vars

\* C6 as stated: the k-th failure reported for a message leaves it PENDING
\* when k is below max_retries and FAILED_TERMINAL when k is max_retries
\* (here on a host whose local time is UTC).
C6_FailuresCountToTerminal ==
    [][\A m \in MsgIds :
          tz = 0 /\ failures'[m] = failures[m] + 1 =>
             store'[m].status = IF failures'[m] >= max_retries
                                THEN FAILED_TERMINAL ELSE PENDING]_vars

\* C6, amended: a reported failure leaves the message PENDING when its retry
\* counter, which counts the claims of the message and not its failures, is
\* below max_retries, and FAILED_TERMINAL otherwise; the failure does not
\* change the counter; a message that has failed max_retries times is
\* FAILED_TERMINAL after that failure; and no claim returns a message that
\* is FAILED_TERMINAL.
C6_RetryCeiling ==
    [][/\ \A m \in MsgIds :
             failures'[m] = failures[m] + 1 =>
                /\ store'[m].status = IF store[m].retry < max_retries
                                      THEN PENDING ELSE FAILED_TERMINAL
                /\ store'[m].retry = store[m].retry
                /\ failures'[m] >= max_retries =>
                      store'[m].status = FAILED_TERMINAL
       /\ \A a \in Agents :
             Claim(a) =>
                \A m \in MsgIds :
                   HasRow(store, m) /\ store[m].status = FAILED_TERMINAL =>
                      /\ m \notin Range(batch'[a])
                      /\ store'[m].status = FAILED_TERMINAL
                      /\ store'[m].retry = store[m].retry]_vars

\* A message has been claimed three times, two of its failures returned it
\* to PENDING and the third left it FAILED_TERMINAL.
C6_Witness ==
    /\ HasRow(store, "m1")
    /\ store["m1"].status = FAILED_TERMINAL
    /\ store["m1"].retry = max_retries
    /\ failures["m1"] = max_retries

\* C7: a message that is CLAIMED for the max_retries-th time and whose
\* claim has timed out is FAILED_TERMINAL once the next claim cycle has run
\* (here on a host whose local time is UTC).
C7_TimedOutAtCeilingIsTerminal ==
    [][\A a \in Agents, m \in MsgIds :
          /\ tz = 0
          /\ StartCycle(a, "none")
          /\ HasRow(store, m)
          /\ store[m].status = CLAIMED
          /\ store[m].retry >= max_retries
          /\ now - store[m].started > timeout_seconds
          => store'[m].status = FAILED_TERMINAL]_vars

\* C8: under fair scheduling every message the transport has received is
\* eventually COMPLETED or FAILED_TERMINAL in the store (here on a host
\* whose local time is UTC).
C8_EventuallyTerminal ==
    \A m \in ReceivedIds :
        (tz = 0 /\ m \in bridge) ~>
            (HasRow(store, m) /\ store[m].status \in {COMPLETED, FAILED_TERMINAL})

\* C9: a message that is COMPLETED stays COMPLETED in every step of the
\* engine (here on a host whose local time is UTC).
C9_CompletedIsFinal ==
    [][\A m \in MsgIds :
          /\ tz = 0
          /\ HasRow(store, m)
          /\ store[m].status = COMPLETED
          => store'[m].status = COMPLETED]_vars

\* C10: a claim that raises leaves every row as it was and hands out
\* nothing; a claim that returns has marked exactly the rows it returns
\* (CLAIMED, retry counter one up, processing-started now) and no other:
\* no batch is ever marked in part.
C10_ClaimAllOrNothing ==
    [][\A err \in Errors :
          FetchAndLock(err) =>
             LET ids == Range(batch'[StoreCaller])
             IN  /\ err # "none" =>
                       /\ store' = store
                       /\ batch'[StoreCaller] = <<>>
                       /\ result' = "raised"
                 /\ \A m \in MsgIds :
                       IF m \in ids
                       THEN /\ store'[m].status = CLAIMED
                            /\ store'[m].retry = store[m].retry + 1
                            /\ store'[m].started = now
                       ELSE store'[m] = store[m]]_vars

\* A claim has just raised while two rows were waiting to be claimed, and
\* both are still PENDING with retry counter 0.
C10_Witness ==
    /\ result = "raised"
    /\ batch[StoreCaller] = <<>>
    /\ \A m \in MsgIds :
          /\ HasRow(store, m)
          /\ store[m].status = PENDING
          /\ store[m].retry = 0
          /\ store[m].started = NULL

\* The messages a claim may return as C11 states them: PENDING, or CLAIMED
\* with processing-started earlier than now minus the timeout and the retry
\* counter below the ceiling.
Claimable(st, m) ==
    /\ HasRow(st, m)
    /\ \/ st[m].status = PENDING
       \/ /\ st[m].status = CLAIMED
          /\ st[m].started < now - timeout_seconds
          /\ st[m].retry < retry_ceiling

\* C11: a claim that returns hands out, oldest event timestamp first, the
\* `limit` oldest of the claimable messages (all of them if they are fewer)
\* and no other message, never one that is COMPLETED or FAILED_TERMINAL,
\* and every message it returns is CLAIMED when the call returns.
C11_ClaimReturnsOldestClaimable ==
    [][\A a \in Agents :
          StartCycle(a, "none") =>
             LET st == sync_from_go_bridge(store, bridge, now)
                 cands == {m \in MsgIds : Claimable(st, m)}
                 got == batch'[a]
             IN  /\ Range(got) \subseteq cands
                 /\ Len(got) = Min(limit, Cardinality(cands))
                 /\ \A i, j \in 1..Len(got) :
                       i < j => /\ got[i] # got[j]
                                /\ st[got[i]].timestamp <= st[got[j]].timestamp
                 /\ \A m \in cands \ Range(got), k \in Range(got) :
                       st[k].timestamp <= st[m].timestamp
                 /\ \A m \in Range(got) :
                       /\ st[m].status \notin {COMPLETED, FAILED_TERMINAL}
                       /\ store'[m].status = CLAIMED]_vars

\* C12: a call of process_new_messages that finds the gate of its process
\* held returns at once: it syncs nothing, claims nothing, processes
\* nothing and leaves no call waiting, the cycle that holds the gate goes
\* on as it was; and a cycle starts only while the gate is free, so at
\* most one cycle runs in a process.
C12_GateHeldCallIsDropped ==
    [][\A a \in Agents :
          /\ SkipCycle(a) \/ (\E err \in Errors : StartCycle(a, err))
             => IF pc[a] # "idle"
                THEN /\ store' = store
                     /\ batch' = batch
                     /\ pc' = pc
                     /\ replies' = replies
                     /\ failures' = failures
                     /\ ran' = ran
                     /\ skipped' = a
                ELSE /\ skipped' # a
                     /\ \A b \in Agents \ {a} :
                           pc'[b] = pc[b] /\ batch'[b] = batch[b]]_vars

\* A call of process p1 has just been dropped while its cycle holds a
\* claimed message and awaits the rest of process_message.
C12_Witness ==
    /\ skipped = "p1"
    /\ pc["p1"] = "awaiting"
    /\ batch["p1"] = <<"m1">>
    /\ store["m1"].status = CLAIMED

-----------------------------------------------------------------------------
\* check_and_strip_wake_word (message_agent.py 124-186).
\*
\* A text is a sequence of characters, each character a one-character string.
\* Upper-case letters are distinct characters that lower() maps to their
\* lower-case ones.  The non-English wake phrases of the source file are the
\* character sequences that stand in the file: thirteen, thirteen and eleven
\* characters, each Hebrew letter of the intended phrase replaced by a pair
\* of characters (a lozenge and an accented Latin letter).  The characters
\* are named here "#" for the lozenge and "1".."6" for the six accented
\* letters; the genuine Hebrew letters, which test_wake_word.py feeds, are
\* "he", "lamed", "vav", "bet", "tet", "yod".

Whitespace == {" ", "\n"}

lower(c) ==
    CASE c = "H" -> "h" [] c = "E" -> "e" [] c = "Y" -> "y"
      [] c = "B" -> "b" [] c = "O" -> "o" [] c = "T" -> "t"
      [] c = "I" -> "i" [] c = "L" -> "l"
      [] OTHER -> c

Lowered(s) == [i \in 1..Len(s) |-> lower(s[i])]

RECURSIVE lstrip(_)
lstrip(s) ==
    IF s # <<>> /\ Head(s) \in Whitespace THEN lstrip(Tail(s)) ELSE s

RECURSIVE rstrip(_)
rstrip(s) ==
    IF s # <<>> /\ s[Len(s)] \in Whitespace
    THEN rstrip(SubSeq(s, 1, Len(s) - 1))
    ELSE s

strip(s) == rstrip(lstrip(s))

startswith(s, w) == Len(s) >= Len(w) /\ SubSeq(s, 1, Len(w)) = w

\* normalized[length:]
SliceFrom(s, length) == SubSeq(s, length + 1, Len(s))

\* The (phrase, length) pairs of english_wake_words, in the order tried.
english_wake_words ==
    << [word |-> <<"h","e","l","l","o"," ","b","o","t">>, length |-> 9],
       [word |-> <<"h","e","y"," ","b","o","t">>,         length |-> 7],
       [word |-> <<"h","i"," ","b","o","t">>,             length |-> 6] >>

\* The (phrase, length) pairs of hebrew_wake_words as they stand in the file.
hebrew_wake_words ==
    << [word |-> <<"#","1","#","2","#","3"," ","#","4","#","3","#","5">>,
        length |-> 7],
       [word |-> <<"#","1","#","6","#","6"," ","#","4","#","3","#","5">>,
        length |-> 7],
       [word |-> <<"#","1","#","6"," ","#","4","#","3","#","5">>,
        length |-> 6] >>

\* The first pair of the list ws whose phrase text begins with, from index i;
\* 0 when none does.
RECURSIVE FirstMatch(_, _, _)
FirstMatch(ws, text, i) ==
    IF i > Len(ws) THEN 0
    ELSE IF startswith(text, ws[i].word) THEN i
    ELSE FirstMatch(ws, text, i + 1)

english_text(normalized) == Lowered(normalized)

check_and_strip_wake_word(content) ==
    IF content = <<>>
    THEN [has_wake_word |-> FALSE, stripped_content |-> content]
    ELSE LET normalized == strip(content)
             e == FirstMatch(english_wake_words, english_text(normalized), 1)
             h == FirstMatch(hebrew_wake_words, normalized, 1)
         IN  IF e # 0
             THEN [has_wake_word |-> TRUE,
                   stripped_content |->
                       lstrip(SliceFrom(normalized,
                                        english_wake_words[e].length))]
             ELSE IF h # 0
             THEN [has_wake_word |-> TRUE,
                   stripped_content |->
                       lstrip(SliceFrom(normalized,
                                        hebrew_wake_words[h].length))]
             ELSE [has_wake_word |-> FALSE, stripped_content |-> content]

\* The arguments tried: leading whitespace, a beginning (a wake phrase in
\* some spelling, or something else), a gap, a rest, trailing whitespace.
Leads == {<<>>, <<" ">>, <<"\n", " ">>}
Beginnings ==
    { <<>>,
      <<"h","e","y"," ","b","o","t">>,
      <<"H","e","y"," ","B","O","T">>,
      <<"h","e","l","l","o"," ","b","o","t">>,
      <<"H","E","L","L","O"," ","b","o","t">>,
      <<"h","i"," ","b","o","t">>,
      <<"H","i"," ","B","o","t">>,
      <<"h","e","y","b","o","t">>,
      <<"h","e","l","l","o">>,
      <<"h","e","y"," "," ","b","o","t">>,
      <<"#","1","#","2","#","3"," ","#","4","#","3","#","5">>,
      <<"#","1","#","6","#","6"," ","#","4","#","3","#","5">>,
      <<"#","1","#","6"," ","#","4","#","3","#","5">>,
      <<"he","lamed","vav"," ","bet","vav","tet">>,
      <<"he","yod","yod"," ","bet","vav","tet">>,
      <<"he","yod"," ","bet","vav","tet">> }
Gaps == {<<>>, <<" ">>, <<",", " ">>}
Rests == {<<>>, <<"x">>, <<"a","n","y">>, <<"h","e","y"," ","b","o","t">>}
Trails == {<<>>, <<" ">>}

WakeInputs ==
    {l \o b \o g \o r \o t :
        l \in Leads, b \in Beginnings, g \in Gaps, r \in Rests, t \in Trails}

WakeInit ==
    /\ InitEngine
    /\ tz = 0
    /\ pm = NoPm
    /\ sess = NoSess
    /\ conf = NoConf
    /\ wake \in {[content |-> c, returned |-> FALSE] : c \in WakeInputs}

\* The call returns.
CheckWakeWord ==
    /\ ~wake.returned
    /\ wake' = [content |-> wake.content,
                returned |-> TRUE,
                has_wake_word |->
                    check_and_strip_wake_word(wake.content).has_wake_word,
                stripped_content |->
                    check_and_strip_wake_word(wake.content).stripped_content]
    /\ UNCHANGED <<sess, conf, store, bridge, now, tz, result, pc, batch, replies,
                   failures, ran, skipped, pm>>

WakeNext == CheckWakeWord

WakeSpec == WakeInit /\ [][WakeNext]_vars

\* The fixed wake phrases: the English ones in any letter case, the others
\* exactly.
BeginsWithEnglish(text) ==
    \E i \in 1..Len(english_wake_words) :
        startswith(Lowered(text), english_wake_words[i].word)

BeginsWithHebrew(text) ==
    \E i \in 1..Len(hebrew_wake_words) :
        startswith(text, hebrew_wake_words[i].word)

\* The text that is left when a wake phrase the trimmed text begins with,
\* and the whitespace after it, are removed (the first phrase in the order
\* the code tries them).
Remainder(text) ==
    LET e == FirstMatch(english_wake_words, Lowered(text), 1)
        h == FirstMatch(hebrew_wake_words, text, 1)
    IN  IF e # 0
        THEN lstrip(SliceFrom(text, Len(english_wake_words[e].word)))
        ELSE lstrip(SliceFrom(text, Len(hebrew_wake_words[h].word)))

\* C17: check_and_strip_wake_word returns (true, remainder) exactly when the
\* trimmed content begins with one of the fixed wake phrases, the remainder
\* being the trimmed content with the phrase and the whitespace following it
\* removed; otherwise it returns (false, content) with the content unchanged.
C17_WakeWordResult ==
    wake.returned =>
        LET text == strip(wake.content)
        IN  IF BeginsWithEnglish(text) \/ BeginsWithHebrew(text)
            THEN /\ wake.has_wake_word
                 /\ wake.stripped_content = Remainder(text)
            ELSE /\ ~wake.has_wake_word
                 /\ wake.stripped_content = wake.content

-----------------------------------------------------------------------------
\* Session expiry (database.py 497-538, config.py 126-134).
\*
\* Instants are minutes since midnight UTC of day 0.  A time zone gives the
\* UTC offset in force at an instant.  pytz hands out a datetime whose
\* tzinfo carries the offset in force at that instant; replace() and the
\* addition of a timedelta keep that offset.

MinutesPerDay == 1440

Zones == {"UTC", "plus2", "dst"}

\* tz.utcoffset at the instant t.  The zone "dst" changes from UTC+1 to
\* UTC+2 at 01:00 UTC of day 1 (02:00 local becomes 03:00).
utcoffset(zone, t) ==
    CASE zone = "UTC" -> 0
      [] zone = "plus2" -> 120
      [] zone = "dst" -> IF t < MinutesPerDay + 60 THEN 60 ELSE 120

\* base_time.astimezone(tz): the wall-clock reading and the offset it carries
astimezone(zone, t) == [wall |-> t + utcoffset(zone, t),
                        offset |-> utcoffset(zone, t)]

\* The instant an aware datetime denotes.
Instant(local) == local.wall - local.offset

\* local.replace(hour = h, minute = m, second = 0, microsecond = 0)
replace_time(local, h, m) ==
    [local EXCEPT !.wall = (local.wall \div MinutesPerDay) * MinutesPerDay
                           + h * 60 + m]

\* local + timedelta(minutes = d)
plus_minutes(local, d) == [local EXCEPT !.wall = @ + d]

\* A policy that counts the hours only, unlike the code's.
get_duration_minutes_hours(policy) ==
    IF policy.reset_mode # "duration" THEN NULL
    ELSE IF policy.reset_hours # NULL THEN policy.reset_hours * 60
    ELSE IF policy.reset_minutes # NULL THEN policy.reset_minutes
    ELSE NULL

\* SessionMemoryConfig.get_duration_minutes; NULL stands for None, and a
\* field that is set holds a positive number (validate).
get_duration_minutes(policy) ==
    IF policy.reset_mode # "duration" THEN NULL
    ELSE IF policy.reset_minutes # NULL THEN policy.reset_minutes
    ELSE IF policy.reset_hours # NULL THEN policy.reset_hours * 60
    ELSE NULL

\* An expiry that takes today's reset time also for a reference time that
\* is exactly the reset time, unlike the code's.
calculate_session_expiry_inclusive(base_time, policy) ==
    LET created_local == astimezone(policy.timezone, base_time)
    IN  CASE policy.reset_mode = "time" ->
                LET reset_today == replace_time(created_local,
                                                policy.reset_time[1],
                                                policy.reset_time[2])
                IN  IF Instant(created_local) <= Instant(reset_today)
                    THEN Instant(reset_today)
                    ELSE Instant(plus_minutes(reset_today, MinutesPerDay))
          [] policy.reset_mode = "duration" ->
                Instant(plus_minutes(created_local,
                                     get_duration_minutes(policy)))
          [] policy.reset_mode = "same_day" ->
                Instant(replace_time(
                            plus_minutes(created_local, MinutesPerDay), 0, 0))

\* Database._calculate_session_expiry: the expiry instant (UTC).
calculate_session_expiry(base_time, policy) ==
    LET created_local == astimezone(policy.timezone, base_time)
    IN  CASE policy.reset_mode = "time" ->
                LET reset_today == replace_time(created_local,
                                                policy.reset_time[1],
                                                policy.reset_time[2])
                IN  IF Instant(created_local) < Instant(reset_today)
                    THEN Instant(reset_today)
                    ELSE Instant(plus_minutes(reset_today, MinutesPerDay))
          [] policy.reset_mode = "duration" ->
                Instant(plus_minutes(created_local,
                                     get_duration_minutes(policy)))
          [] policy.reset_mode = "same_day" ->
                Instant(replace_time(
                            plus_minutes(created_local, MinutesPerDay), 0, 0))

\* The policies tried: fixed-time, duration (hours, minutes or both) and
\* same-day.
ExpiryPolicies ==
    {[reset_mode |-> "time", reset_time |-> rt, reset_hours |-> NULL,
      reset_minutes |-> NULL, timezone |-> z] :
        rt \in {<<2, 0>>, <<4, 0>>, <<23, 30>>}, z \in Zones}
    \cup
    ({[reset_mode |-> "duration", reset_time |-> <<0, 0>>, reset_hours |-> h,
       reset_minutes |-> m, timezone |-> z] :
         h \in {NULL, 1, 2}, m \in {NULL, 1, 90}, z \in {"UTC", "dst"}}
     \ {[reset_mode |-> "duration", reset_time |-> <<0, 0>>,
         reset_hours |-> NULL, reset_minutes |-> NULL, timezone |-> z] :
           z \in Zones})
    \cup
    {[reset_mode |-> "same_day", reset_time |-> <<0, 0>>,
      reset_hours |-> NULL, reset_minutes |-> NULL, timezone |-> z] :
        z \in Zones}

\* The reference times tried.
ReferenceTimes ==
    {d * MinutesPerDay + h * 60 + m :
        d \in {0, 1}, h \in {0, 1, 2, 3, 12, 23}, m \in {0, 30}}

ExpiryInit ==
    /\ InitEngine
    /\ tz = 0
    /\ wake = NoWake
    /\ pm = NoPm
    /\ conf = NoConf
    /\ sess \in {[kind |-> "expiry", base_time |-> r, policy |-> p,
                  returned |-> FALSE, updated |-> FALSE] :
                    r \in ReferenceTimes, p \in ExpiryPolicies}

\* The call returns.
CalculateExpiry ==
    /\ sess.kind = "expiry"
    /\ ~sess.returned
    /\ sess' = [kind |-> "expiry", base_time |-> sess.base_time,
                policy |-> sess.policy, returned |-> TRUE,
                updated |-> FALSE,
                expiry |-> calculate_session_expiry(sess.base_time,
                                                    sess.policy)]
    /\ UNCHANGED <<store, bridge, now, tz, result, pc, batch, replies,
                   failures, ran, skipped, wake, pm, conf>>

\* update_session_context at the later activity time t, under the same
\* policy: expires_at = _calculate_session_expiry(now, policy).
UpdateExpiry(t) ==
    /\ sess.kind = "expiry"
    /\ sess.returned
    /\ t > sess.base_time
    /\ sess' = [sess EXCEPT !.base_time = t, !.updated = TRUE,
                            !.expiry = calculate_session_expiry(t, sess.policy)]
    /\ UNCHANGED <<store, bridge, now, tz, result, pc, batch, replies,
                   failures, ran, skipped, wake, pm, conf>>

ExpiryNext ==
    \/ CalculateExpiry
    \/ \E t \in ReferenceTimes : UpdateExpiry(t)

ExpirySpec == ExpiryInit /\ [][ExpiryNext]_vars

\* C25: for the fixed-time policy the expiry for reference time r is the
\* configured hour:minute on r's local calendar day in the configured zone
\* when that instant is strictly later than r, and the same hour:minute on
\* the following day otherwise.  (InstantOfWall(x) is the instant at which
\* the clocks of the zone show the reading x; a reading that the change of
\* offset skips is taken with the offset in force before the change.)
C25_FixedTimeExpiry ==
    sess.kind = "expiry" /\ sess.returned /\ sess.policy.reset_mode = "time"
    => LET zone == sess.policy.timezone
           r == sess.base_time
           w == ((r + utcoffset(zone, r)) \div MinutesPerDay) * MinutesPerDay
                + sess.policy.reset_time[1] * 60 + sess.policy.reset_time[2]
           InstantOfWall(x) ==
               IF \E t \in {x, x - 60, x - 120} : t + utcoffset(zone, t) = x
               THEN CHOOSE t \in {x, x - 60, x - 120} :
                       t + utcoffset(zone, t) = x
               ELSE x - 60
           today == InstantOfWall(w)
       IN  sess.expiry = IF today > r THEN today
                         ELSE InstantOfWall(w + MinutesPerDay)

\* C26: for the duration policy the expiry is the reference time plus the
\* configured minutes; a policy with hours and no minutes uses hours times
\* 60, a policy with both uses the minutes.
C26_DurationExpiry ==
    sess.kind = "expiry" /\ sess.returned
    /\ sess.policy.reset_mode = "duration"
    => sess.expiry = sess.base_time +
                     (IF sess.policy.reset_minutes # NULL
                      THEN sess.policy.reset_minutes
                      ELSE sess.policy.reset_hours * 60)

\* 90 minutes from 00:00 give 01:30, with the hours set as well.
C26_Witness ==
    /\ sess.kind = "expiry"
    /\ sess.returned
    /\ sess.policy.reset_mode = "duration"
    /\ sess.policy.reset_minutes = 90
    /\ sess.policy.reset_hours = 2
    /\ sess.base_time = 0
    /\ sess.expiry = 90

-----------------------------------------------------------------------------
\* The chat_sessions table (database.py 427-495, 540-551, 565-609).
\*
\* sess.rows is the table.  A row carries, besides its columns, a serial
\* number that tells the rows ever inserted apart (the session_id is built
\* from user, chat and the second of creation and can come again).
\* sess.dead holds the serials of the rows that a lookup found expired and
\* deleted, sess.ret the outcome of the latest get_or_create_session, and
\* sess.clock the wall clock, which update_session_context,
\* cleanup_expired_sessions and reset_stale_session read.  The time
\* get_or_create_session works with is its argument current_time, the event
\* time of the message being processed.

MaxSessTime == 2
MaxSessions == 3

\* The sender strings, and the identity sets of the participants: "A" and
\* "B" are two sender strings of one participant.
SessUsers == {"A", "B", "C"}
IdentitySets == {{"A", "B"}, {"C"}}
IdentitySetOf(u) == CHOOSE ids \in IdentitySets : u \in ids
SessChat == "chat1"

\* The session memory policy of the conversation: two minutes after the
\* reference time.
SessPolicy ==
    [reset_mode |-> "duration", reset_time |-> <<0, 0>>, reset_hours |-> NULL,
     reset_minutes |-> 2, timezone |-> "UTC"]

stale_after_seconds == 1

\* A lookup by the primary identity alone, unlike the code's.
candidate_ids_primary(user_jid, aliases) == {user_jid}

\* candidate_ids: the primary identity and the aliases
candidate_ids(user_jid, aliases) == {user_jid} \cup aliases

\* _delete_session for each row of gone
delete_sessions(rows, gone) == rows \ gone

\* Database.get_or_create_session at current_time t.  cands are the rows
\* of the SELECT, which are met newest first; first is the row the loop
\* returns at (one of the newest not expired), met are the expired rows
\* before it, or all rows when none is returned.  The result gives the
\* table, the session returned, and the rows deleted.
get_or_create_session(rows, serial, user_jid, chat_jid, policy, aliases, t) ==
    LET cands == {r \in rows : r.user \in candidate_ids(user_jid, aliases)
                               /\ r.chat = chat_jid}
        alive == {r \in cands : r.expires > t}
        newest == {r \in alive : \A q \in alive : q.created <= r.created}
    IN  IF alive # {}
        THEN {LET met == {r \in cands \ alive : r.created > first.created}
              IN  [rows |-> delete_sessions(rows, met),
                   session |-> first, created |-> FALSE, deleted |-> met] :
                first \in newest}
        ELSE LET new == [serial |-> serial, user |-> user_jid,
                         chat |-> chat_jid, context |-> 0, created |-> t,
                         expires |-> calculate_session_expiry(t, policy),
                         last_activity |-> t]
             IN  {[rows |-> delete_sessions(rows, cands) \cup {new},
                   session |-> new, created |-> TRUE, deleted |-> cands]}

\* Database.update_session_context for the row r at activity time t.
update_session_context(rows, r, context, policy, t) ==
    (rows \ {r}) \cup
    {[r EXCEPT !.context = context, !.last_activity = t,
               !.expires = calculate_session_expiry(t, policy)]}

\* Database.cleanup_expired_sessions at wall-clock time t.
cleanup_expired_sessions(rows, t) == {r \in rows : ~(r.expires < t)}

\* A reset that also deletes a session whose age equals the limit, unlike
\* the code's.
reset_stale_session_at_limit(rows, user_jid, chat_jid, t) ==
    LET mine == {r \in rows : r.user = user_jid /\ r.chat = chat_jid}
        newest == {r \in mine : \A q \in mine : q.created <= r.created}
    IN  IF mine = {} THEN {rows}
        ELSE {IF t - r.last_activity >= stale_after_seconds
              THEN rows \ {r} ELSE rows : r \in newest}

\* Database.reset_stale_session at wall-clock time t: the newest row of the
\* user in the chat goes when its last activity is older than the limit.
reset_stale_session(rows, user_jid, chat_jid, t) ==
    LET mine == {r \in rows : r.user = user_jid /\ r.chat = chat_jid}
        newest == {r \in mine : \A q \in mine : q.created <= r.created}
    IN  IF mine = {} THEN {rows}
        ELSE {IF t - r.last_activity > stale_after_seconds
              THEN rows \ {r} ELSE rows : r \in newest}

SessInit ==
    /\ InitEngine
    /\ tz = 0
    /\ wake = NoWake
    /\ pm = NoPm
    /\ conf = NoConf
    /\ sess = [kind |-> "table", rows |-> {}, next |-> 1, dead |-> {},
               clock |-> 0, reset |-> {},
               ret |-> [session |-> [serial |-> 0], created |-> FALSE,
                        time |-> 0, user |-> "A"]]

SessUnchanged ==
    UNCHANGED <<store, bridge, now, tz, result, pc, batch, replies,
                failures, ran, skipped, wake, pm, conf>>

\* process_message looks the session up for a message of user u with event
\* time t (message_agent.py 601-607).
GetOrCreate(u, t) ==
    /\ sess.kind = "table"
    /\ sess.next <= MaxSessions
    /\ \E g \in get_or_create_session(sess.rows, sess.next, u, SessChat,
                                      SessPolicy, IdentitySetOf(u) \ {u}, t) :
          sess' = [sess EXCEPT
                     !.rows = g.rows,
                     !.next = IF g.created THEN @ + 1 ELSE @,
                     !.dead = @ \cup {r.serial : r \in g.deleted},
                     !.reset = @ \ IdentitySetOf(u),
                     !.ret = [session |-> g.session, created |-> g.created,
                              time |-> t, user |-> u]]
    /\ SessUnchanged

\* process_message saves the context of the session it holds, at the time
\* of the reply (message_agent.py 655-660).
UpdateContext(r) ==
    /\ sess.kind = "table"
    /\ r \in sess.rows
    /\ sess' = [sess EXCEPT
                  !.rows = update_session_context(sess.rows, r, 1, SessPolicy,
                                                  sess.clock)]
    /\ SessUnchanged

\* rotation_cleanup_task (main.py 293)
CleanupExpired ==
    /\ sess.kind = "table"
    /\ sess' = [sess EXCEPT
                  !.rows = cleanup_expired_sessions(sess.rows, sess.clock)]
    /\ SessUnchanged

\* process_message for the self chat (message_agent.py 534-538).
\* sess.reset holds the users whose session a reset has deleted (the call
\* returned True) and who have not been looked up since.
ResetStale(u) ==
    /\ sess.kind = "table"
    /\ \E rows \in reset_stale_session(sess.rows, u, SessChat, sess.clock) :
          sess' = [sess EXCEPT !.rows = rows,
                               !.reset = IF rows # sess.rows
                                         THEN @ \cup {u} ELSE @]
    /\ SessUnchanged

SessTick ==
    /\ sess.kind = "table"
    /\ sess.clock < MaxSessTime
    /\ sess' = [sess EXCEPT !.clock = @ + 1]
    /\ SessUnchanged

SessNext ==
    \/ \E u \in SessUsers, t \in 0..MaxSessTime : GetOrCreate(u, t)
    \/ \E r \in sess.rows : UpdateContext(r)
    \/ CleanupExpired
    \/ \E u \in SessUsers : ResetStale(u)
    \/ SessTick

SessSpec == SessInit /\ [][SessNext]_vars

C24_NoExpiredSessionReturned ==
    [][\A u \in SessUsers, t \in 0..MaxSessTime :
          GetOrCreate(u, t) /\ t <= sess.clock /\ ~sess'.ret.created =>
             /\ sess'.ret.session.expires > sess.clock
             /\ sess'.ret.session.serial \notin sess'.dead]_vars

-----------------------------------------------------------------------------
\* process_message (message_agent.py 453-669) and the marking that follows
\* it in process_new_messages (442-448), for one claimed message.
\*
\* pm holds the message (msg), the configuration of its conversation (cfg),
\* last_bot_response of the conversation, the stage the call has reached,
\* the content handed on by the wake-word gate, the response, the counts of
\* provider calls, of calls of whatsapp.send_message and of replies
\* delivered, the seconds the debounce has waited, and the message that
\* arrived in the conversation meanwhile (followup).

PipeId == "m1"

\* last_bot_response.get(chat_jid) when nothing was recorded (None; the
\* code's truth test treats an empty text the same way).
NoReply == <<>>
NoFollowUp == [day |-> 0 - 1]

\* The texts query_llm returns: the provider's answer, and the apology the
\* except branch builds.
Answer == <<"a","n","s","w","e","r">>
Apology == <<"S","o","r","r","y">>
\* The text of a debug emission.
DebugText == <<"D","E","B","U","G">>

\* The claimed messages.  A row written by WhatsAppClient.send_message has
\* an id sent_<time>, the account's own sender and is_from_me = 1
\* (whatsapp_client.py 147-155).  A row synced from the bridge has the
\* bridge's id and the bridge's sender; own tells whether it is a reply or a
\* debug emission of the engine that the bridge surfaced (sync_from_go_bridge
\* is called with include_own_messages left at True), and then it is
\* from_me and carries the emitted text.  The texts typed by people are a
\* wake phrase and a request, a wake phrase alone, no wake phrase, a
\* non-English wake phrase of the file and a request, and the text of the
\* last reply typed again.
PipeMessages ==
    {[sent_id |-> TRUE, sender_self |-> TRUE, is_from_me |-> TRUE,
      own |-> o, content |-> IF o = "reply" THEN Answer ELSE DebugText] :
        o \in {"reply", "debug"}}
    \cup
    {[sent_id |-> FALSE, sender_self |-> s, is_from_me |-> TRUE,
      own |-> o, content |-> IF o = "reply" THEN Answer ELSE DebugText] :
        s \in BOOLEAN, o \in {"reply", "debug"}}
    \cup
    {[sent_id |-> FALSE, sender_self |-> s, is_from_me |-> f,
      own |-> "no", content |-> c] :
        s \in BOOLEAN, f \in BOOLEAN,
        c \in
          { <<"H","e","y"," ","b","o","t"," ","x">>,
            <<"h","e","y"," ","b","o","t"," ">>,
            <<"x">>,
            <<"#","1","#","6"," ","#","4","#","3","#","5"," ","x">>,
            Answer }}

\* The conversation of the message and its configuration: the self chat
\* (config.self), a monitored entity, or a chat without active entity.
PipeConfigs ==
    {[chat |-> "self", active |-> a, hey_bot |-> FALSE, delay |-> 2,
      debug |-> d] : a \in BOOLEAN, d \in BOOLEAN}
    \cup
    {[chat |-> "entity", active |-> TRUE, hey_bot |-> h, delay |-> r,
      debug |-> d] : h \in BOOLEAN, r \in {0, 2}, d \in BOOLEAN}
    \cup
    {[chat |-> "unknown", active |-> FALSE, hey_bot |-> FALSE, delay |-> 0,
      debug |-> FALSE]}

PipeStart(m, c, l) ==
    [msg |-> m, cfg |-> c, last_bot_response |-> l, stage |-> "start",
     content |-> m.content, response |-> NoReply, provider_calls |-> 0,
     sends |-> 0, delivered |-> 0, elapsed |-> 0, followup |-> NoFollowUp,
     session |-> 0, context |-> 0, saved |-> "none"]

PipeInit ==
    /\ \E r \in {1, 3} :
          store = [m \in MsgIds |->
                      IF m = PipeId
                      THEN [NewRow("hello", 0, 0) EXCEPT
                                !.status = CLAIMED, !.retry = r, !.started = 0]
                      ELSE NoRow]
    /\ bridge = {PipeId}
    /\ now = 0
    /\ tz = 0
    /\ result = "none"
    /\ pc = [a \in Agents |-> "idle"]
    /\ batch = [a \in Agents |-> <<>>]
    /\ replies = [m \in MsgIds |-> 0]
    /\ failures = [m \in MsgIds |-> 0]
    /\ ran = [m \in MsgIds |-> FALSE]
    /\ skipped = "none"
    /\ wake = NoWake
    /\ conf = NoConf
    /\ \E rows \in {{},
                     {[serial |-> 1, user |-> "A", chat |-> SessChat,
                       context |-> 1, created |-> 0 - 1, expires |-> 1,
                       last_activity |-> 0 - 1]},
                     {[serial |-> 1, user |-> "A", chat |-> SessChat,
                       context |-> 1, created |-> 0 - 2, expires |-> 0 - 1,
                       last_activity |-> 0 - 2]}} :
          sess = [kind |-> "table", rows |-> rows, next |-> 2, dead |-> {},
                  clock |-> 0, reset |-> {},
                  ret |-> [session |-> [serial |-> 0], created |-> FALSE,
                           time |-> 0, user |-> "A"]]
    /\ pm \in {PipeStart(m, c, l) :
                  m \in PipeMessages, c \in PipeConfigs,
                  l \in {NoReply, Answer}}

\* from_bot (message_agent.py 481)
from_bot(msg) == msg.sent_id \/ msg.sender_self

\* The echo test (499-506), made for non-self chats only.
is_echo(p) ==
    /\ p.cfg.chat # "self"
    /\ p.msg.is_from_me
    /\ p.last_bot_response # NoReply
    /\ p.msg.content = p.last_bot_response

\* not content or not content.strip()
IsBlank(c) == strip(c) = <<>>

wake_gate(c) == check_and_strip_wake_word(c)

\* A lookup that finds an entity for every conversation, unlike the code's.
get_entity_by_jid_any(c) == TRUE

\* Config.get_entity_by_jid: an entity is found only for a conversation that
\* is configured and active (entity_by_jid holds the active entities only).
get_entity_by_jid(c) == c.chat = "entity"

\* Lines 461-581: the stage process_message reaches before the debounce, and
\* the content it goes on with.  "returned" is a return without reply.  In
\* the self chat a message that goes on has first called reset_stale_session
\* for the session user (532-541; an error of the call is logged), which
\* EnterPipeline applies to the sessions.
Gates(p, st) ==
    LET w == wake_gate(p.msg.content)
        skip == [stage |-> "returned", content |-> p.msg.content]
        go(c) == [stage |-> IF p.cfg.chat # "self" /\ p.cfg.delay > 0
                            THEN "waiting" ELSE "context",
                  content |-> c]
    IN  IF HasRow(st, PipeId) /\ st[PipeId].status = COMPLETED THEN skip
        ELSE IF from_bot(p.msg) THEN skip
        ELSE IF is_echo(p) THEN skip
        ELSE IF p.cfg.chat = "self"
        THEN IF ~p.cfg.active THEN skip
             ELSE IF p.msg.sent_id THEN skip
             ELSE go(p.msg.content)
        ELSE IF ~get_entity_by_jid(p.cfg) THEN skip
        ELSE IF p.cfg.hey_bot
        THEN IF ~w.has_wake_word THEN skip
             ELSE IF IsBlank(w.stripped_content) THEN skip
             ELSE go(w.stripped_content)
        ELSE go(p.msg.content)

\* A reset of the stale self session placed before the checks of the self
\* chat, unlike the code's.
resets_stale_early(p, st) == p.cfg.chat = "self"

\* Lines 508-541: reset_stale_session is called for a message of the self
\* chat once the checks that return without reply are behind it.
resets_stale(p, st) == p.cfg.chat = "self" /\ Gates(p, st).stage # "returned"

EnterPipeline ==
    /\ pm.stage = "start"
    /\ pm' = [pm EXCEPT !.stage = Gates(pm, store).stage,
                        !.content = Gates(pm, store).content]
    /\ IF resets_stale(pm, store)
       THEN \E rows \in reset_stale_session(sess.rows, "A", SessChat,
                                             sess.clock) \cup {sess.rows} :
               sess' = [sess EXCEPT !.rows = rows,
                                    !.reset = IF rows # sess.rows
                                              THEN {"A"} ELSE @]
       ELSE sess' = sess
    /\ UNCHANGED <<conf, store, bridge, now, tz, result, pc, batch, replies,
                   failures, ran, skipped, wake>>

\* Event times.  The original message's event time, as _parse_timestamp
\* returns it, is second 10 of day 0 (UTC).  The store keeps a timestamp as
\* the text the writer gave: date, a separator (a space, as the
\* webhook bridge's strftime and sqlite3's datetime adapter write it, or "T",
\* as isoformat writes it), time of day.
message_time == [day |-> 0, secs |-> 10]

\* after_timestamp.isoformat()
isoformat(t) == [day |-> t.day, sep |-> "T", secs |-> t.secs]

\* SQLite's comparison of two such texts: character by character, and a
\* space sorts before "T".
TextGreater(a, b) ==
    \/ a.day > b.day
    \/ /\ a.day = b.day
       /\ \/ a.sep = "T" /\ b.sep = " "
          \/ a.sep = b.sep /\ a.secs > b.secs

\* The messages that may arrive in the conversation during the wait:
\* received (is_from_me = 0), from the same sender or another, not yet
\* claimed, claimed in the same batch, or completed by another process.
FollowUps ==
    {[day |-> d[1], secs |-> d[2], sep |-> s, same_sender |-> b,
      status |-> st] :
        d \in {<<0, 5>>, <<0, 12>>, <<1, 5>>}, s \in {" ", "T"},
        b \in BOOLEAN, st \in {PENDING, CLAIMED, COMPLETED}}

\* Database.has_unprocessed_message_after (database.py 371-399) for the
\* conversation's one other row f.  processed is set to 1 by
\* mark_message_completed only (database.py 335-343), so that a claimed row
\* has processed = 0.
has_unprocessed_message_after(f, after_timestamp) ==
    /\ f # NoFollowUp
    /\ f.status # COMPLETED
    /\ TextGreater(f, isoformat(after_timestamp))
    /\ f.same_sender

\* A message arrives in the conversation while the debounce waits.
FollowUp(f) ==
    /\ pm.stage = "waiting"
    /\ pm.followup = NoFollowUp
    /\ pm' = [pm EXCEPT !.followup = f]
    /\ UNCHANGED <<sess, conf, store, bridge, now, tz, result, pc, batch, replies,
                   failures, ran, skipped, wake>>

\* One turn of the loop of _maybe_wait_for_user_response (336-359): the poll
\* finds a follow-up (return False: no reply), raises (break: go on), or
\* finds none and sleeps check_interval = 1 second.
Poll(raises) ==
    /\ pm.stage = "waiting"
    /\ pm' = IF raises THEN [pm EXCEPT !.stage = "context"]
             ELSE IF has_unprocessed_message_after(pm.followup, message_time)
             THEN [pm EXCEPT !.stage = "returned"]
             ELSE [pm EXCEPT !.elapsed = @ + 1,
                             !.stage = IF pm.elapsed + 1 >= pm.cfg.delay
                                       THEN "context" ELSE "waiting"]
    /\ UNCHANGED <<sess, conf, store, bridge, now, tz, result, pc, batch, replies,
                   failures, ran, skipped, wake>>

\* Lines 600-612: the session of the session user is looked up at the
\* event time of the message and its context loaded for the prompt, or the
\* store raises, before the lookup has changed the table or after it.
LoadContext(raises) ==
    /\ pm.stage = "context"
    /\ \E g \in get_or_create_session(
                    sess.rows, sess.next, "A", SessChat, SessPolicy, {},
                    message_time.day * MinutesPerDay
                    + message_time.secs \div 60) :
          LET found == [sess EXCEPT
                          !.rows = g.rows,
                          !.next = IF g.created THEN @ + 1 ELSE @,
                          !.dead = @ \cup {r.serial : r \in g.deleted},
                          !.reset = {},
                          !.ret = [session |-> g.session,
                                   created |-> g.created, time |-> 0,
                                   user |-> "A"]]
          IN  IF raises
              THEN /\ sess' \in {sess, found}
                   /\ pm' = [pm EXCEPT !.stage = "raised"]
              ELSE /\ sess' = found
                   /\ pm' = [pm EXCEPT
                                !.stage = IF pm.cfg.debug THEN "debug"
                                          ELSE "llm",
                                !.session = g.session.serial,
                                !.context = g.session.context]
    /\ UNCHANGED <<conf, store, bridge, now, tz, result, pc, batch, replies,
                   failures, ran, skipped, wake>>

\* Lines 614-628: the debug emission; a failure of the send is logged.
DebugSend ==
    /\ pm.stage = "debug"
    /\ pm' = [pm EXCEPT !.stage = "llm", !.sends = @ + 1]
    /\ UNCHANGED <<sess, conf, store, bridge, now, tz, result, pc, batch, replies,
                   failures, ran, skipped, wake>>

\* A query_llm that lets the provider's failure escape, unlike the code's.
query_llm_raise(p, answer) ==
    IF answer # "ok" THEN [response |-> NoReply, calls |-> 1]
    ELSE [response |-> Answer, calls |-> 1]

\* query_llm (671-716): no provider call for an empty message; otherwise the
\* provider answers ("ok"), or chat_completion raises (an HTTP error status
\* or any other error: "error"; the 60 s time-out of the HTTP client:
\* "timeout") and the except branch returns the apology.
query_llm(p, answer) ==
    IF p.content = <<>>
    THEN [response |-> <<"P","l","e","a","s","e">>, calls |-> 0]
    ELSE [response |-> IF answer # "ok" THEN Apology ELSE Answer, calls |-> 1]

ProviderAnswers == {"ok", "error", "timeout"}

QueryLlm(answer) ==
    /\ pm.stage = "llm"
    /\ LET q == query_llm(pm, answer)
       IN  pm' = [pm EXCEPT !.stage = IF q.response = NoReply
                                       THEN "raised" ELSE "send",
                            !.response = q.response,
                            !.provider_calls = @ + q.calls]
    /\ UNCHANGED <<sess, conf, store, bridge, now, tz, result, pc, batch, replies,
                   failures, ran, skipped, wake>>

\* A transport that raises for every send that was not delivered, unlike
\* the code's.
send_message_strict(outcome) == outcome # "delivered"

\* whatsapp_client.send_message 141-163: an answer of the bridge that is not
\* a success is logged; only an exception of the request or of the storing
\* of the sent row is raised again.
send_message_raises(outcome) == outcome \in {"raises", "delivered_raises"}

\* Lines 639-641 with WhatsAppClient.send_message (whatsapp_client.py
\* 118-163): the bridge delivers the reply ("delivered"), the bridge answers
\* without success, which is only logged ("refused"), or the call raises
\* ("raises": no connection, a time-out, or a failure after the delivery).
SendReply(outcome) ==
    /\ pm.stage = "send"
    /\ pm' = [pm EXCEPT
                !.sends = @ + 1,
                !.delivered = IF outcome \in {"delivered", "delivered_raises"}
                              THEN @ + 1 ELSE @,
                !.last_bot_response =
                    IF send_message_raises(outcome) THEN @ ELSE pm.response,
                !.stage = IF send_message_raises(outcome)
                          THEN "raised" ELSE "persist"]
    /\ UNCHANGED <<sess, conf, store, bridge, now, tz, result, pc, batch, replies,
                   failures, ran, skipped, wake>>

\* A save whose error escapes process_message, unlike the code's.
after_save_escapes(saved) == IF saved THEN "returned" ELSE "raised"

\* Lines 654-664: the try around update_session_context logs its error, and
\* process_message returns either way.
after_save(saved) == "returned"

\* Lines 643-664: the context is extended by the exchange (an exception
\* here escapes) and update_session_context saves it at the time of the
\* reply, or raises, which is logged and leaves the row as it was.
Persist(raises) ==
    /\ pm.stage = "persist"
    /\ IF raises
       THEN /\ pm' = [pm EXCEPT !.stage = "raised"]
            /\ sess' = sess
       ELSE \E saved \in BOOLEAN :
               /\ pm' = [pm EXCEPT !.stage = after_save(saved),
                                   !.saved = IF saved THEN "yes" ELSE "failed"]
               /\ sess' =
                     IF saved /\ \E r \in sess.rows : r.serial = pm.session
                     THEN [sess EXCEPT !.rows =
                             update_session_context(
                                 sess.rows,
                                 CHOOSE r \in sess.rows : r.serial = pm.session,
                                 pm.context + 1, SessPolicy, sess.clock)]
                     ELSE sess
    /\ UNCHANGED <<conf, store, bridge, now, tz, result, pc, batch, replies,
                   failures, ran, skipped, wake>>

\* process_new_messages 442-448: the marking after process_message returned
\* or raised; db is the store's answer to the marking call.
Mark(db) ==
    /\ pm.stage \in {"returned", "raised"}
    /\ LET r == AfterMessage(store, PipeId, pm.stage = "returned", db)
       IN  /\ store' = r.store
           /\ pm' = [pm EXCEPT !.stage = IF r.aborted THEN "unmarked"
                                         ELSE IF r.failed THEN "failed"
                                         ELSE "completed"]
    /\ UNCHANGED <<sess, conf, bridge, now, tz, result, pc, batch, replies,
                   failures, ran, skipped, wake>>

PipeNext ==
    \/ EnterPipeline
    \/ \E f \in FollowUps : FollowUp(f)
    \/ \E r \in BOOLEAN : Poll(r)
    \/ \E r \in BOOLEAN : LoadContext(r)
    \/ DebugSend
    \/ \E answer \in ProviderAnswers : QueryLlm(answer)
    \/ \E o \in {"delivered", "refused", "raises", "delivered_raises"} :
          SendReply(o)
    \/ \E r \in BOOLEAN : Persist(r)
    \/ \E db \in DbAnswers : Mark(db)

PipeSpec == PipeInit /\ [][PipeNext]_vars

\* C13: a message that the engine itself sent (a reply or a debug emission),
\* when it appears in the store as a message to process, is completed
\* without a provider call and without anything being sent.
C13_NoReplyToOwnOutput ==
    pm.stage # "none" /\ pm.msg.own # "no" =>
        /\ pm.provider_calls = 0
        /\ pm.sends = 0
        /\ pm.stage \in {"start", "returned", "completed", "failed", "unmarked"}

\* C14: a claimed message whose content equals the last reply sent to its
\* conversation and whose origin flag marks it as the bot's own is completed
\* without invoking the provider, in any conversation.
C14_EchoCompletedWithoutProvider ==
    [][/\ EnterPipeline
       /\ pm.msg.is_from_me
       /\ pm.last_bot_response # NoReply
       /\ pm.msg.content = pm.last_bot_response
       => /\ pm'.stage = "returned"
          /\ pm'.provider_calls = 0]_vars

\* The follow-up f is a received, unprocessed message of the same sender
\* whose event time is after t.
NewerFollowUp(f, t) ==
    /\ f # NoFollowUp
    /\ f.status # COMPLETED
    /\ f.same_sender
    /\ \/ f.day > t.day
       \/ f.day = t.day /\ f.secs > t.secs

\* C15: in a non-self conversation with response delay D > 0, a poll made
\* before D has elapsed that finds in the store a newer unprocessed received
\* message of the same sender, with an event time after the original's, ends
\* the processing without reply and without provider call; a poll that finds
\* none lets the wait go on, and after D processing proceeds; with D = 0 or
\* in the self conversation there is no wait.
C15_Debounce ==
    [][/\ Poll(FALSE) /\ NewerFollowUp(pm.followup, message_time)
          => pm'.stage = "returned" /\ pm'.provider_calls = 0
       /\ Poll(FALSE) /\ ~NewerFollowUp(pm.followup, message_time)
          => /\ pm'.stage = IF pm'.elapsed >= pm.cfg.delay
                            THEN "context" ELSE "waiting"
       /\ EnterPipeline /\ (pm.cfg.delay = 0 \/ pm.cfg.chat = "self")
          => pm'.stage # "waiting"]_vars

\* The message reaches the configuration of its conversation: it is not
\* completed already, not bot-originated, not an echo, and its conversation
\* is the active self chat or a monitored entity.
ReachesConfig(p, st) ==
    /\ ~(HasRow(st, PipeId) /\ st[PipeId].status = COMPLETED)
    /\ ~from_bot(p.msg)
    /\ ~is_echo(p)
    /\ \/ p.cfg.chat = "entity"
       \/ p.cfg.chat = "self" /\ p.cfg.active

HasWakePhrase(c) ==
    BeginsWithEnglish(strip(c)) \/ BeginsWithHebrew(strip(c))

\* C16: in a non-self conversation that requires the wake word, a message
\* without wake phrase, or with a blank remainder after it, is completed
\* without reply, provider call or debounce wait; a message with the phrase
\* and a non-empty remainder proceeds with the remainder as its content;
\* conversations that do not require the wake word, and the self
\* conversation, are never filtered.
C16_WakeWordGate ==
    [][EnterPipeline /\ ReachesConfig(pm, store) =>
          IF pm.cfg.chat = "entity" /\ pm.cfg.hey_bot
          THEN IF \/ ~HasWakePhrase(pm.msg.content)
                  \/ IsBlank(Remainder(strip(pm.msg.content)))
               THEN /\ pm'.stage = "returned"
                    /\ pm'.provider_calls = 0
                    /\ pm'.elapsed = 0
               ELSE /\ pm'.stage \in {"waiting", "context"}
                    /\ pm'.content = Remainder(strip(pm.msg.content))
          ELSE /\ pm'.stage \in {"waiting", "context"}
               /\ pm'.content = pm.msg.content]_vars

\* C18: when process_message raises, the cycle calls mark_message_failed
\* with max_retries, which leaves the message PENDING if its retry counter
\* is below max_retries and FAILED_TERMINAL otherwise, and the message is
\* not COMPLETED by that cycle; when process_message returns normally, with
\* or without a reply, the message is marked COMPLETED (the store carrying
\* out the marking call).
C18_MarkingFollowsOutcome ==
    [][Mark("ok") =>
          IF pm.stage = "raised"
          THEN /\ store'[PipeId].status =
                      IF store[PipeId].retry < max_retries
                      THEN PENDING ELSE FAILED_TERMINAL
               /\ store'[PipeId].status # COMPLETED
               /\ pm'.stage = "failed"
          ELSE /\ store'[PipeId].status = COMPLETED
               /\ pm'.stage = "completed"]_vars

\* The send of the reply raised, and the message is PENDING again.
C18_Witness ==
    /\ pm.stage = "failed"
    /\ pm.sends = 1
    /\ pm.response = Answer
    /\ pm.last_bot_response = NoReply
    /\ store[PipeId].status = PENDING
    /\ store[PipeId].retry = 1

\* C20: when the provider call fails, query_llm hands back the apology
\* instead of raising, the apology is sent through the transport as the
\* reply, and the message is marked COMPLETED: the provider's failure does
\* not take the message to mark_message_failed and a retry.
C20_ProviderFailureFallback ==
    [][/\ (\E answer \in ProviderAnswers \ {"ok"} : QueryLlm(answer))
          /\ pm.content # <<>>
          => /\ pm'.stage = "send"
             /\ pm'.response = Apology
             /\ store' = store
       /\ pm.response = Apology /\ SendReply("delivered")
          => /\ pm'.stage = "persist"
             /\ pm'.delivered = pm.delivered + 1
             /\ pm'.last_bot_response = Apology
       /\ pm.response = Apology /\ Persist(FALSE)
          => pm'.stage = "returned"
       /\ pm.response = Apology /\ pm.stage = "returned" /\ Mark("ok")
          => /\ store'[PipeId].status = COMPLETED
             /\ pm'.stage = "completed"]_vars

\* The provider failed, the apology was delivered, the message is COMPLETED.
C20_Witness ==
    /\ pm.stage = "completed"
    /\ pm.response = Apology
    /\ pm.provider_calls = 1
    /\ pm.delivered = 1
    /\ store[PipeId].status = COMPLETED

-----------------------------------------------------------------------------
\* One process whose cycles claim batches of up to two messages.

BatchAgent == "p1"

BatchInit == Init /\ tz = 0

BatchNext ==
    \/ \E m \in MsgIds : BridgeReceive(m)
    \/ \E err \in Errors : StartCycle(BatchAgent, err)
    \/ SkipCycle(BatchAgent)
    \/ \E outcome \in {"return", "raise", "await"}, db \in DbAnswers :
          BeginMessage(BatchAgent, outcome, db)
    \/ \E outcome \in {"replied", "replied_then_raised", "raised", "no_reply"},
          db \in DbAnswers : FinishMessage(BatchAgent, outcome, db)
    \/ Tick

BatchSpec == BatchInit /\ [][BatchNext]_vars

\* A step of the cycle of process a that handles the head of its batch.
HandlesMessage(a) ==
    \/ \E outcome \in {"return", "raise"}, db \in DbAnswers :
          BeginMessage(a, outcome, db)
    \/ \E outcome \in {"replied", "replied_then_raised", "raised", "no_reply"},
          db \in DbAnswers : FinishMessage(a, outcome, db)

\* C19: no error inside a cycle (sync, claim, processing of a message,
\* failure marking) escapes the loop: after a claim that raised, the gate is
\* free for the next cycle, and after the handling of one message, whatever
\* was raised in it, the cycle goes on with the remaining messages of the
\* batch and ends only when the batch is used up.
C19_ErrorsStayInsideCycle ==
    [][/\ (\E err \in Errors \ {"none"} : StartCycle(BatchAgent, err))
          => pc'[BatchAgent] = "idle"
       /\ HandlesMessage(BatchAgent)
          => /\ batch'[BatchAgent] = Tail(batch[BatchAgent])
             /\ pc'[BatchAgent] = IF Tail(batch[BatchAgent]) = <<>>
                                  THEN "idle" ELSE "ready"]_vars

\* C21: a time-out of the provider call is a transient failure of the
\* message: process_message raises, so that the message goes to
\* mark_message_failed and is retried within the retry count, and no reply
\* is sent for it.
C21_ProviderTimeoutIsRetried ==
    [][QueryLlm("timeout") /\ pm.content # <<>> =>
          /\ pm'.stage = "raised"
          /\ pm'.response = NoReply]_vars

\* C22: a claimed message whose conversation is not a recognised active
\* monitored conversation, or is the self conversation while the self policy
\* is inactive, is completed without a reply and without a provider call.
C22_UnservedConversationCompleted ==
    [][(pm.stage # "none"
        /\ (pm.cfg.chat = "unknown"
            \/ (pm.cfg.chat = "self" /\ ~pm.cfg.active))) =>
          /\ pm'.provider_calls = 0
          /\ pm'.sends = 0
          /\ EnterPipeline => pm'.stage = "returned"
          /\ Mark("ok") => /\ store'[PipeId].status = COMPLETED
                           /\ pm'.stage = "completed"]_vars

\* A received message of a conversation without active entity, which no
\* earlier check stopped, is COMPLETED with nothing sent.
C22_Witness ==
    /\ pm.stage = "completed"
    /\ pm.cfg.chat = "unknown"
    /\ ~from_bot(pm.msg)
    /\ ~pm.msg.is_from_me
    /\ pm.sends = 0
    /\ pm.provider_calls = 0
    /\ store[PipeId].status = COMPLETED

-----------------------------------------------------------------------------
\* Reloading the configuration (message_agent.py 202-246, config.py 224-316,
\* 491-495).
\*
\* conf.file is the content of app.json, or Unreadable.  A content is known
\* by a version number and by whether Config accepts it.  conf.config,
\* conf.perplexity, conf.self_session_stale_seconds and
\* conf.response_delay_default name the version of the file that the
\* configuration in effect, the completion client and the two derived
\* settings were built from; conf.config_hash is the agent's recorded hash,
\* conf.db_hash the hash in app_state, conf.last the way the latest
\* _maybe_reload_config ended.

MaxVersions == 2
Unreadable == [version |-> 0, valid |-> FALSE]
FileContents == [version : 1..MaxVersions, valid : BOOLEAN]

\* No hash: None in the agent, no row in app_state.
NoHash == <<>>

\* _hash_config_file: hashlib.sha256(data).hexdigest(), or None when the
\* file cannot be read
hash_config_file(file) ==
    IF file = Unreadable THEN NoHash
    ELSE <<"sha256", file.version, file.valid>>

\* A reload that accepts every content, unlike the code's.
reload_config_unchecked(file) == [raised |-> FALSE, version |-> file.version]

\* reload_config: Config(config_file, env_file) raises for a content that
\* does not parse or does not validate, and the module's instance stays.
reload_config(file) ==
    IF file.valid THEN [raised |-> FALSE, version |-> file.version]
    ELSE [raised |-> TRUE, version |-> 0]

\* A comparison with the agent's recorded hash alone, unlike the code's.
config_unchanged_in_memory(stored_hash, config_hash, current_hash) ==
    config_hash = current_hash

\* Line 224: no change when the hash of app_state and the agent's recorded
\* hash both equal the hash of the file.
config_unchanged(stored_hash, config_hash, current_hash) ==
    stored_hash = current_hash /\ config_hash = current_hash

\* _maybe_reload_config.  read_ok: get_config_hash answers; write_ok:
\* set_config_hash answers.  raised tells whether an exception leaves the
\* method.
maybe_reload_config(c, read_ok, write_ok) ==
    LET current_hash == hash_config_file(c.file)
        stored_hash == IF read_ok THEN c.db_hash ELSE NoHash
        new_config == reload_config(c.file)
    IN  IF current_hash = NoHash
        THEN [conf |-> [c EXCEPT !.last = "unreadable"], raised |-> FALSE]
        ELSE IF config_unchanged(stored_hash, c.config_hash, current_hash)
        THEN [conf |-> [c EXCEPT !.last = "same"], raised |-> FALSE]
        ELSE IF new_config.raised
        THEN [conf |-> [c EXCEPT !.last = "failed"], raised |-> FALSE]
        ELSE [conf |-> [c EXCEPT
                          !.config = new_config.version,
                          !.perplexity = new_config.version,
                          !.self_session_stale_seconds = new_config.version,
                          !.response_delay_default = new_config.version,
                          !.config_hash = current_hash,
                          !.db_hash = IF write_ok THEN current_hash ELSE @,
                          !.last = IF write_ok THEN "reloaded"
                                   ELSE "reloaded, hash not stored"],
              raised |-> FALSE]

\* MessageAgent.__init__ with the first content of the file: the
\* configuration, the client and the settings come from it, and
\* _init_config_hash records its hash, in the agent and in app_state, unless
\* the database fails.
ConfInit ==
    /\ InitEngine
    /\ tz = 0
    /\ wake = NoWake
    /\ pm = NoPm
    /\ sess = NoSess
    /\ \E db_ok \in BOOLEAN :
         LET file == [version |-> 1, valid |-> TRUE]
             h == IF db_ok THEN hash_config_file(file) ELSE NoHash
         IN  conf = [kind |-> "reload", file |-> file, config |-> 1,
                     perplexity |-> 1, self_session_stale_seconds |-> 1,
                     response_delay_default |-> 1, config_hash |-> h,
                     db_hash |-> h, last |-> "none"]

\* app.json is edited, or becomes unreadable.
EditFile(file) ==
    /\ conf.kind = "reload"
    /\ conf.file # file
    /\ conf' = [conf EXCEPT !.file = file]
    /\ UNCHANGED <<store, bridge, now, tz, result, pc, batch, replies,
                   failures, ran, skipped, wake, pm, sess>>

\* process_new_messages up to the for loop (message_agent.py 418-439):
\* _maybe_reload_config, then the sync and the claim; an exception that
\* leaves _maybe_reload_config ends the cycle in the outer except.
ReloadCycle(a, read_ok, write_ok) ==
    /\ conf.kind = "reload"
    /\ LET r == maybe_reload_config(conf, read_ok, write_ok)
       IN  /\ conf' = r.conf
           /\ IF r.raised
              THEN /\ ~locked(a)
                   /\ UNCHANGED <<store, bridge, now, tz, result, pc, batch,
                                  replies, failures, ran, skipped, wake, pm,
                                  sess>>
              ELSE ClaimCycle(a, "none")

ConfNext ==
    \/ \E file \in FileContents \cup {Unreadable} : EditFile(file)
    \/ \E read_ok, write_ok \in BOOLEAN :
          ReloadCycle(BatchAgent, read_ok, write_ok)
    \/ \E m \in MsgIds : BridgeReceive(m)
    \/ \E outcome \in {"return", "raise"} :
          BeginMessage(BatchAgent, outcome, "ok")

ConfSpec == ConfInit /\ [][ConfNext]_vars

\* C27: when the changed configuration does not parse or validate, the
\* configuration in effect, the completion client, the derived settings and
\* both hashes stay as they were, no exception leaves the reload, and the
\* cycle goes on to sync and claim.  (The file has changed when it can be
\* read and its hash differs from the stored or from the recorded one.)
C27_FailedReloadKeepsConfig ==
    [][\A read_ok, write_ok \in BOOLEAN :
          /\ ReloadCycle(BatchAgent, read_ok, write_ok)
          /\ hash_config_file(conf.file) # NoHash
          /\ ~(/\ (IF read_ok THEN conf.db_hash ELSE NoHash)
                  = hash_config_file(conf.file)
               /\ conf.config_hash = hash_config_file(conf.file))
          /\ ~conf.file.valid
          => /\ conf' = [conf EXCEPT !.last = "failed"]
             /\ ~maybe_reload_config(conf, read_ok, write_ok).raised
             /\ \E ids \in SelectIds(sync_from_go_bridge(store, bridge, now),
                                     timeout_threshold(now, tz,
                                                       timeout_seconds),
                                     limit) :
                   /\ batch'[BatchAgent] = ids
                   /\ store' = MarkProcessing(
                                  sync_from_go_bridge(store, bridge, now),
                                  ids, now)]_vars

\* A reload failed on a changed, invalid file, the configuration of the first
\* file is in effect, and the cycle has claimed a message.
C27_Witness ==
    /\ conf.kind = "reload"
    /\ conf.last = "failed"
    /\ ~conf.file.valid
    /\ conf.file # Unreadable
    /\ conf.config = 1
    /\ conf.config_hash # hash_config_file(conf.file)
    /\ batch[BatchAgent] # <<>>

-----------------------------------------------------------------------------
\* Shutdown (main.py 402-419, message_agent.py 390-407).

\* run_service after the shutdown signal: message_agent.stop() clears
\* is_running, then every task is cancelled and awaited.  The agent's task
\* is suspended at an await, in the sleep between two cycles or inside
\* process_message, and the cancellation is raised there as CancelledError,
\* which is no Exception: neither process_message's handler nor the ones of
\* process_new_messages and start catch it, so the task ends where it is and
\* marks nothing.
Shutdown(a) ==
    /\ pc[a] \in {"idle", "awaiting"}
    /\ pc' = [pc EXCEPT ![a] = "stopped"]
    /\ batch' = [batch EXCEPT ![a] = <<>>]
    /\ UNCHANGED <<sess, conf, wake, pm, skipped, store, bridge, now, tz,
                   result, replies, failures, ran>>

StopNext ==
    \/ \E m \in MsgIds : BridgeReceive(m)
    \/ StartCycle(BatchAgent, "none")
    \/ \E outcome \in {"return", "raise", "await"} :
          BeginMessage(BatchAgent, outcome, "ok")
    \/ \E outcome \in {"replied", "replied_then_raised", "raised", "no_reply"} :
          FinishMessage(BatchAgent, outcome, "ok")
    \/ Tick
    \/ Shutdown(BatchAgent)

StopSpec == BatchInit /\ [][StopNext]_vars

\* C28: after the shutdown no new cycle starts, and the cycle that was in
\* flight has run to its end with every message it claimed marked completed
\* or failed: when the process has stopped, no message is left in the
\* claimed state.
C28_ShutdownLeavesNothingClaimed ==
    pc[BatchAgent] = "stopped" =>
        \A m \in MsgIds : HasRow(store, m) => store[m].status # CLAIMED

-----------------------------------------------------------------------------
\* The retry counter (database.py 294-319, 346-357).

\* C29: the retry counter of a message is the number of its claims: a new
\* row has 0, a claim that returns the message adds exactly 1, no other step
\* (upsert, completion marking, failure marking, restart, passing of time)
\* changes it, and it never exceeds the retry ceiling.  (A message without
\* a row counts as 0, the column's default for the row an upsert inserts.)
C29_RetryCountsClaims ==
    [][\A m \in MsgIds :
          HasRow(store', m) =>
             /\ store'[m].retry =
                   (IF HasRow(store, m) THEN store[m].retry ELSE 0)
                   + (IF \E a \in Agents : Claim(a) /\ m \in Range(batch'[a])
                      THEN 1 ELSE 0)
             /\ store'[m].retry <= retry_ceiling
             /\ store'[m].retry <= max_retries]_vars

\* A message has been claimed max_retries times, a failure was reported for
\* it in between, and its counter stands at the ceiling.
C29_Witness ==
    /\ HasRow(store, "m1")
    /\ store["m1"].retry = retry_ceiling
    /\ store["m1"].status = CLAIMED
    /\ failures["m1"] > 0

-----------------------------------------------------------------------------
\* The order of processing inside a cycle (database.py 321-328,
\* message_agent.py 442-448).

\* C30: the batch of a cycle is in ascending order of the event timestamps
\* and stays so; the cycle handles the head of the batch and no other
\* message, touches no other row while it does, and goes on to the next
\* message only when the one it handled has been marked.
C30_OneAtATimeInTimestampOrder ==
    [][/\ \A i, j \in 1..Len(batch'[BatchAgent]) :
             i < j => store'[batch'[BatchAgent][i]].timestamp
                      <= store'[batch'[BatchAgent][j]].timestamp
       /\ HandlesMessage(BatchAgent) =>
             /\ \A x \in MsgIds \ {Head(batch[BatchAgent])} :
                   store'[x] = store[x]
             /\ batch'[BatchAgent] \in {Tail(batch[BatchAgent]), <<>>}
             /\ batch'[BatchAgent] # <<>> =>
                   store'[Head(batch[BatchAgent])].status # CLAIMED
       /\ (\E db \in DbAnswers : BeginMessage(BatchAgent, "await", db)) =>
             /\ store' = store
             /\ batch' = batch]_vars

\* The cycle claimed both messages, has replied to the older one and marked
\* it, and stands before the newer one.
C30_Witness ==
    /\ pc[BatchAgent] = "ready"
    /\ batch[BatchAgent] = <<"m2">>
    /\ store["m1"].status = COMPLETED
    /\ replies["m1"] = 1
    /\ store["m2"].status = CLAIMED
    /\ store["m2"].retry = 1
    /\ store["m1"].timestamp < store["m2"].timestamp

-----------------------------------------------------------------------------
\* Updates of a session (database.py 540-553, message_agent.py 643-660).

\* C31: an update sets expires-at to the policy's expiry function evaluated
\* at the time of the update, and across successive updates of one session
\* under an unchanged policy the expiry never moves backward.
C31_ExpiryNeverMovesBackward ==
    [][\A t \in ReferenceTimes :
          UpdateExpiry(t) /\ sess.updated =>
             /\ sess'.expiry = calculate_session_expiry(t, sess.policy)
             /\ sess'.expiry >= sess.expiry]_vars
\* C37: when several received messages of one sender in one non-self
\* conversation with a response delay are claimed in one batch, the poll made
\* for an older one finds the later one, which is CLAIMED and so still has
\* processed = 0, and the older one ends without reply and without provider
\* call.
C37_OnlyLatestOfBatchReplied ==
    [][/\ Poll(FALSE)
       /\ pm.followup # NoFollowUp
       /\ pm.followup.status = CLAIMED
       /\ pm.followup.same_sender
       /\ \/ pm.followup.day > message_time.day
          \/ /\ pm.followup.day = message_time.day
             /\ pm.followup.secs > message_time.secs
       => /\ pm'.stage = "returned"
          /\ pm'.provider_calls = 0
          /\ pm'.sends = 0]_vars

\* C34: when update_session_context fails after the reply was sent, the
\* error stays inside process_message: the call returns, the message is
\* marked COMPLETED and is not claimed again, and the session keeps the
\* context, last activity and expiry it had.
C34_FailedSaveKeepsSession ==
    [][/\ Persist(FALSE) /\ pm'.saved = "failed"
          => /\ pm'.stage = "returned"
             /\ sess' = sess
             /\ store' = store
       /\ pm.saved = "failed" /\ Mark("ok")
          => /\ store'[PipeId].status = COMPLETED
             /\ \A thr \in 0..MaxTicks : ~Candidate(store'[PipeId], thr)
             /\ sess' = sess]_vars

\* The reply was delivered, the save failed, the message is COMPLETED and
\* the session still holds the context it was loaded with.
C34_Witness ==
    /\ pm.stage = "completed"
    /\ pm.saved = "failed"
    /\ pm.delivered = 1
    /\ store[PipeId].status = COMPLETED
    /\ \E r \in sess.rows : /\ r.serial = pm.session
                            /\ r.context = pm.context
                            /\ r.last_activity < sess.clock

\* C38: a message that ends without reply (bot-originated, echo, unknown or
\* inactive conversation, filtered by the wake word, or taken over during
\* the debounce) goes through no step that changes a session or the last
\* sent reply of its conversation, and nothing is sent for it.
C38_NoReplyLeavesSessionsAlone ==
    [][pm'.stage \in {"waiting", "returned", "completed"} /\ pm'.sends = 0
          => /\ sess' = sess
             /\ pm'.last_bot_response = pm.last_bot_response
             /\ pm'.provider_calls = 0
             /\ pm'.delivered = 0
             /\ pm'.saved = "none"]_vars

\* A message of the inactive self chat is COMPLETED without reply while a
\* stale session of its user is still in the table.
C38_Witness ==
    /\ pm.stage = "completed"
    /\ pm.sends = 0
    /\ pm.cfg.chat = "self"
    /\ ~pm.cfg.active
    /\ store[PipeId].status = COMPLETED
    /\ \E r \in sess.rows : sess.clock - r.last_activity > stale_after_seconds

\* C39: when the transport reports an unsuccessful send without raising,
\* process_message goes on as after a delivery: the reply becomes the last
\* sent reply of the conversation, the exchange is added to the context of
\* the session, and the message is marked COMPLETED.
C39_RefusedSendCountsAsSent ==
    [][/\ SendReply("refused")
          => /\ pm'.stage = "persist"
             /\ pm'.last_bot_response = pm.response
             /\ pm'.delivered = pm.delivered
             /\ store' = store
       /\ pm.delivered = 0 /\ Persist(FALSE) /\ pm'.saved = "yes"
          => \E r \in sess'.rows : /\ r.serial = pm.session
                                   /\ r.context = pm.context + 1
                                   /\ r.last_activity = sess.clock
       /\ pm.delivered = 0 /\ pm.stage = "returned" /\ pm.saved # "none"
          /\ Mark("ok")
          => /\ store'[PipeId].status = COMPLETED
             /\ pm'.stage = "completed"]_vars

\* The reply was refused by the bridge, and yet it is the last sent reply,
\* the session holds one exchange more, and the message is COMPLETED.
C39_Witness ==
    /\ pm.stage = "completed"
    /\ pm.delivered = 0
    /\ pm.saved = "yes"
    /\ pm.last_bot_response = pm.response
    /\ pm.response = Answer
    /\ store[PipeId].status = COMPLETED
    /\ \E r \in sess.rows : r.serial = pm.session /\ r.context = pm.context + 1

\* C36 as stated: _maybe_reload_config reloads exactly when the hash of the
\* readable file differs from the hash recorded at the last load, in
\* app_state or in the agent.
C36_ReloadExactlyOnChange ==
    [][\A read_ok, write_ok \in BOOLEAN :
          ReloadCycle(BatchAgent, read_ok, write_ok) =>
             LET h == hash_config_file(conf.file)
             IN  conf'.last \in {"reloaded", "reloaded, hash not stored",
                                 "failed"}
                 <=> /\ h # NoHash
                     /\ conf.db_hash # h \/ conf.config_hash # h]_vars

\* C36, amended: _maybe_reload_config reloads exactly when the file is
\* readable and its hash differs from the agent's recorded hash or from the
\* hash of app_state, a hash of app_state that cannot be read counting as
\* different; after a reload whose hash was stored, the configuration and
\* the client come from the new content and both hashes are the new hash, and
\* a following _maybe_reload_config that reads app_state and finds the file
\* unchanged changes nothing.
C36_ReloadOnChangeOrUnreadHash ==
    [][\A read_ok, write_ok \in BOOLEAN :
          ReloadCycle(BatchAgent, read_ok, write_ok) =>
             LET h == hash_config_file(conf.file)
             IN  /\ conf'.last \in {"reloaded", "reloaded, hash not stored",
                                    "failed"}
                    <=> /\ h # NoHash
                        /\ \/ ~read_ok
                           \/ conf.db_hash # h
                           \/ conf.config_hash # h
                 /\ conf'.last = "reloaded"
                    => /\ conf'.config = conf.file.version
                       /\ conf'.perplexity = conf.file.version
                       /\ conf'.config_hash = h
                       /\ conf'.db_hash = h
                 /\ read_ok /\ conf.last = "reloaded"
                    /\ conf.config_hash = h
                    => conf' = [conf EXCEPT !.last = "same"]]_vars

\* The second content of the file was loaded, both hashes are its hash, and
\* the latest _maybe_reload_config found nothing to do.
C36_Witness ==
    /\ conf.kind = "reload"
    /\ conf.last = "same"
    /\ conf.file.version = 2
    /\ conf.config = 2
    /\ conf.perplexity = 2
    /\ conf.config_hash = hash_config_file(conf.file)
    /\ conf.db_hash = conf.config_hash

\* C35: reset_stale_session deletes the newest session of the user in the
\* conversation exactly when the session's last activity is older than the
\* limit, and otherwise changes nothing; after a reset that deleted, the
\* next lookup for the user creates a new session with empty context.
C35_ResetStaleSession ==
    [][/\ \A u \in SessUsers :
            ResetStale(u) =>
               LET mine == {r \in sess.rows : r.user = u /\ r.chat = SessChat}
                   old == {r \in mine :
                              /\ \A q \in mine : q.created <= r.created
                              /\ sess.clock - r.last_activity
                                    > stale_after_seconds}
               IN  IF old # {}
                   THEN /\ \E r \in old : sess'.rows = sess.rows \ {r}
                        /\ u \in sess'.reset
                   ELSE /\ sess'.rows = sess.rows
                        /\ sess'.reset = sess.reset
       /\ \A u \in SessUsers, t \in 0..MaxSessTime :
            GetOrCreate(u, t) /\ u \in sess.reset =>
               /\ sess'.ret.created
               /\ sess'.ret.session.context = 0
               /\ sess'.ret.session.serial = sess.next
               /\ sess'.ret.session \in sess'.rows]_vars

\* A reset has deleted the session of a user, whose context had been saved,
\* and the user has not been looked up since.
C35_Witness ==
    /\ sess.kind = "table"
    /\ "A" \in sess.reset
    /\ sess.next > 1
    /\ \A r \in sess.rows : r.user # "A"

\* C40: for every policy mode and every reference time the expiry that
\* _calculate_session_expiry returns is strictly later than the reference
\* time, so that a session created at the time of a lookup, or updated at
\* the time of a reply, is not expired at that time.
C40_ExpiryAfterReference ==
    sess.kind = "expiry" /\ sess.returned => sess.expiry > sess.base_time

\* A reference time that is exactly the reset time of a fixed-time policy
\* gets the reset time of the next day.
C40_Witness ==
    /\ sess.kind = "expiry"
    /\ sess.returned
    /\ sess.policy.reset_mode = "time"
    /\ sess.policy.reset_time = <<2, 0>>
    /\ sess.policy.timezone = "UTC"
    /\ sess.base_time = 120
    /\ sess.expiry = 120 + MinutesPerDay

-----------------------------------------------------------------------------
\* The context of a session (message_agent.py 278-311, 361-388, 600-660).
\*
\* An entry of the context has a role, the instant of its timestamp in
\* minutes, and the number msg of the message it belongs to.  The
\* timestamps are written with isoformat() from UTC datetimes and read back
\* with fromisoformat(), which gives the same instant.  sess.stored is the
\* context in the session row, sess.expires the expiry of the row,
\* sess.rendered the context rendered into the latest prompt, sess.clock the
\* wall clock, sess.next the number of the next message and sess.more the
\* number of messages replied to so far.

MaxCtxTime == 4
MaxExchanges == 3

\* self.max_context_messages
max_context_messages == 20

\* A trimming that keeps the oldest entries, unlike the code's.
prune_context_oldest(context, policy, t) ==
    LET d == get_duration_minutes(policy)
        windowed == policy.reset_mode = "duration" /\ d # NULL /\ d # 0
        InWindow(en) == ~windowed \/ en.timestamp >= t - d
        pruned == SelectSeq(context, InWindow)
    IN  IF Len(pruned) > max_context_messages
        THEN SubSeq(pruned, 1, max_context_messages)
        ELSE pruned

\* MessageAgent._prune_context: in duration mode the entries older than the
\* window before t are dropped, and of the rest the last
\* max_context_messages are kept.
prune_context(context, policy, t) ==
    LET d == get_duration_minutes(policy)
        windowed == policy.reset_mode = "duration" /\ d # NULL /\ d # 0
        InWindow(en) == ~windowed \/ en.timestamp >= t - d
        pruned == SelectSeq(context, InWindow)
    IN  IF Len(pruned) > max_context_messages
        THEN SubSeq(pruned, Len(pruned) - max_context_messages + 1,
                    Len(pruned))
        ELSE pruned

\* MessageAgent._append_and_trim_context: the user entry with the event time
\* of the message and the assistant entry with the time of the reply are
\* appended, and the result is pruned at the time of the reply.
append_and_trim_context(context, msg, user_time, response_time, policy) ==
    prune_context(
        context \o <<[role |-> "user", timestamp |-> user_time, msg |-> msg],
                     [role |-> "assistant", timestamp |-> response_time,
                      msg |-> msg]>>,
        policy, response_time)

\* A session that has seen n exchanges in the minute 0, under the duration
\* policy or a same-day policy.
ContextInit ==
    /\ InitEngine
    /\ tz = 0
    /\ wake = NoWake
    /\ pm = NoPm
    /\ conf = NoConf
    /\ \E n \in {0, 9, 10},
          p \in {SessPolicy,
                 [SessPolicy EXCEPT !.reset_mode = "same_day",
                                    !.reset_minutes = NULL]} :
          sess = [kind |-> "context", policy |-> p,
                  stored |-> [i \in 1..(2 * n) |->
                                 [role |-> IF i % 2 = 1 THEN "user"
                                           ELSE "assistant",
                                  timestamp |-> 0, msg |-> (i + 1) \div 2]],
                  expires |-> calculate_session_expiry(0, p),
                  rendered |-> <<>>, clock |-> 0, next |-> n + 1, more |-> 0]

\* process_message 600-660 for a message with event time e that is replied to
\* d minutes after the previous reply: the session that has not expired at e
\* gives its context, or a new session an empty one; the context is pruned
\* at e for the prompt; the exchange is appended, the result pruned at the
\* time of the reply and saved with the new expiry.
Exchange(e, d) ==
    /\ sess.kind = "context"
    /\ sess.more < MaxExchanges
    /\ sess.clock + d <= MaxCtxTime
    /\ e <= sess.clock + d
    /\ LET response_time == sess.clock + d
           context == IF sess.expires > e THEN sess.stored ELSE <<>>
           rendered == prune_context(context, sess.policy, e)
       IN  sess' = [sess EXCEPT
                      !.rendered = rendered,
                      !.stored = append_and_trim_context(
                                     rendered, sess.next, e, response_time,
                                     sess.policy),
                      !.expires = calculate_session_expiry(response_time,
                                                           sess.policy),
                      !.clock = response_time,
                      !.next = @ + 1,
                      !.more = @ + 1]
    /\ UNCHANGED <<store, bridge, now, tz, result, pc, batch, replies,
                   failures, ran, skipped, wake, pm, conf>>

ContextNext == \E e \in 0..MaxCtxTime, d \in {0, 1, 3} : Exchange(e, d)

ContextSpec == ContextInit /\ [][ContextNext]_vars

\* C32: after every update the stored context holds at most
\* max_context_messages entries, none of them, under a duration policy, older
\* than the window before the time of the reply, and they are the latest of
\* the entries inside the window, in their order; the context rendered into
\* the prompt obeys the same bounds with the event time of the message in
\* the place of the time of the reply.
C32_ContextBounds ==
    [][\A e \in 0..MaxCtxTime, d \in {0, 1, 3} :
          Exchange(e, d) =>
             LET window == get_duration_minutes(sess.policy)
                 Recent(en, t) ==
                     sess.policy.reset_mode = "duration"
                        => en.timestamp >= t - window
                 Bounded(out, in, t) ==
                     /\ Len(out) <= 20
                     /\ \A i \in 1..Len(out) : Recent(out[i], t)
                     /\ LET inside == {i \in 1..Len(in) : Recent(in[i], t)}
                            kept == {i \in inside :
                                        Cardinality({j \in inside : j > i})
                                           < 20}
                        IN  /\ Len(out) = Cardinality(kept)
                            /\ \A i \in kept :
                                  out[Cardinality({j \in kept : j <= i})]
                                     = in[i]
                 context == IF sess.expires > e THEN sess.stored ELSE <<>>
                 exchange == <<[role |-> "user", timestamp |-> e,
                                msg |-> sess.next],
                               [role |-> "assistant",
                                timestamp |-> sess.clock + d,
                                msg |-> sess.next]>>
             IN  /\ Bounded(sess'.rendered, context, e)
                 /\ Bounded(sess'.stored, sess'.rendered \o exchange,
                            sess.clock + d)]_vars

\* Eleven exchanges of one minute: the first has left the stored context,
\* which holds the twenty entries of the ten that followed.
C32_Witness ==
    /\ sess.kind = "context"
    /\ sess.more >= 1
    /\ Len(sess.stored) = 20
    /\ sess.stored[1] = [role |-> "user", timestamp |-> 0, msg |-> 2]
    /\ sess.stored[20].role = "assistant"
    /\ sess.stored[20].msg = 11

\* C33: the stored context is in the order of the timestamps of its entries,
\* and every message replied to stands in it as its user entry immediately
\* followed by the assistant entry of its reply, whatever the order in which
\* the messages were processed.
C33_ChronologicalPairs ==
    sess.kind = "context" =>
       /\ \A i, j \in 1..Len(sess.stored) :
             i < j => sess.stored[i].timestamp <= sess.stored[j].timestamp
       /\ \A i \in 1..Len(sess.stored) :
             IF sess.stored[i].role = "user"
             THEN /\ i < Len(sess.stored)
                  /\ sess.stored[i + 1].role = "assistant"
                  /\ sess.stored[i + 1].msg = sess.stored[i].msg
             ELSE /\ i > 1
                  /\ sess.stored[i - 1].role = "user"
                  /\ sess.stored[i - 1].msg = sess.stored[i].msg

====
